---- MODULE Spec2Model ----
(***************************************************************************)
(* The layout tree, the reversible commands and the undo/redo history      *)
(* engine of mpl-grid-configurator's frontend, together with the           *)
(* rendering/edit service the frontend mirrors every edit to.              *)
(*                                                                         *)
(* A client operation (executeAction, undo, redo) is an async function:    *)
(* it reads the history state when it is called, sends one request, and    *)
(* dispatches to the reducer when the response arrives.  The three steps   *)
(* are separate actions (the call; the service handling the request or     *)
(* the transport failing; the continuation after the await), so that       *)
(* states with a request in flight are states of the model.                *)
(***************************************************************************)
EXTENDS Integers, Sequences, FiniteSets, TLC

VARIABLES
  state,     \* useReducer state of useHistory: [past, present, future]
  srv,       \* the service's mirror of the session: [layout, figsize]
  undoData,  \* merge commands' closure variable undoData, by command id
  calls,     \* the async client operations that have not returned yet, each
             \* with the present it was called at
  cmds,      \* number of ApiCall objects built so far (their identities)
  lost,      \* number of responses lost on their way back so far
  races,     \* number of operations issued while another was pending so far
  lastDone,  \* the operation that returned last: [op, type, outcome]
  chain,     \* an execute, its undo and its redo in a row:
             \* [stage, id, before, present]
  resizer,   \* useRestructure: [restructure, debounced], each by orientation:
             \* the state rowRestructure / columnRestructure, and the call
             \* the debounced setter of that state has pending
  drag,      \* what the resizer was offered: [window, sent, settles, made,
             \* last]: the proposals made since a debounce timer started,
             \* the requests that carried a settled value, the timer firings
             \* and the proposals so far, the window of the last firing
  session    \* the session of App: [token, init, seed]: the state
             \* sessionToken, how far performInit of useInit has come, and
             \* the {layout, figsize} useInit was mounted with

vars ==
  <<state, srv, undoData, calls, cmds, lost, races, lastDone, chain,
    resizer, drag, session>>

-----------------------------------------------------------------------------
(* Bounds of the model *)

MaxCmds == 2         \* commands the user builds in a run of Spec
MaxDepth == 2        \* depth of the layout trees the user builds by split
MaxLost == 1         \* responses lost in a run of Spec
MaxPending == 2      \* operations awaiting a response at once in SpecRace
MaxRaces == 1        \* operations issued while another is pending in SpecRace
MaxLongCmds == 52    \* commands the user builds in a run of SpecLong
MaxRaceCmds == 50    \* commands the user builds in a run of SpecRace
MaxEditCmds == 1     \* commands the user builds in a run of SpecEdit
MaxHookCmds == 2     \* commands the user builds in a run of SpecHook
MaxDragCmds == 2     \* restructures the resizer executes in a run of SpecDrag
MaxCoalesceCmds == 2 \* restructures the resizer executes in a run of SpecCoalesce
MaxProposals == 3    \* ratio proposals the overlay makes in a run
MaxGridCmds == 3     \* edits the grid handlers are called for in a run of SpecGrid
MaxPathLen == 2      \* length of the paths an action is called with in SpecPaths
MaxLayoutCalls == 1  \* calls of the functions of lib/layout in a run of SpecLayout
MaxUnwindCmds == 2   \* commands the user builds in a run of SpecUnwind

-----------------------------------------------------------------------------
(* Layout tree: lib/layout *)

Leaf(v) == [value |-> v]

Node(o, l, r, rat) == [orient |-> o, children |-> <<l, r>>, ratios |-> rat]

\* typeof n === "object": a LayoutNode; a leaf is a string
IsObject(n) == "orient" \in DOMAIN n

Orients == {"row", "column"}

DEFAULT_LEAF == Leaf("draw_empty")

\* a ratio is a percentage; the model counts it in hundredths of a percent,
\* the size of RESIZE_EPSILON, so [50, 50] is <<5000, 5000>>
DEFAULT_RATIOS == <<5000, 5000>>

DEFAULT_LAYOUT == Node("row", DEFAULT_LEAF, DEFAULT_LEAF, DEFAULT_RATIOS)

DEFAULT_FIGSIZE == <<8, 4>>

\* getAt does not throw: every step but the last lands on a LayoutNode
RECURSIVE CanGetAt(_, _)
\* a getAt that also throws when the node at the end of the path is a leaf
RECURSIVE CanGetAtChecksEnd(_, _)
CanGetAtChecksEnd(layout, path) ==
  /\ IsObject(layout)
  /\ path = <<>>
       \/ CanGetAtChecksEnd(layout.children[Head(path) + 1], Tail(path))

CanGetAt(layout, path) ==
  IF path = <<>> THEN TRUE
  ELSE IsObject(layout) /\ CanGetAt(layout.children[Head(path) + 1], Tail(path))

RECURSIVE getAt(_, _)
getAt(layout, path) ==
  IF path = <<>> THEN layout
  ELSE getAt(layout.children[Head(path) + 1], Tail(path))

CanGetNode(layout, path) == CanGetAt(layout, path) /\ IsObject(getAt(layout, path))

getNode(layout, path) == getAt(layout, path)

CanGetLeaf(layout, path) == CanGetAt(layout, path) /\ ~IsObject(getAt(layout, path))

getLeaf(layout, path) == getAt(layout, path).value

\* path.slice(0, -1) and path.slice(-1)
Front(path) == IF path = <<>> THEN <<>> ELSE SubSeq(path, 1, Len(path) - 1)

LastStep(path) == IF path = <<>> THEN <<>> ELSE <<path[Len(path)]>>

\* the tree with the node at a valid path replaced
RECURSIVE PutAt(_, _, _)
PutAt(layout, path, val) ==
  IF path = <<>> THEN val
  ELSE [layout EXCEPT !.children[Head(path) + 1] =
          PutAt(layout.children[Head(path) + 1], Tail(path), val)]

RECURSIVE Depth(_)
Depth(layout) ==
  IF IsObject(layout)
  THEN 1 + (IF Depth(layout.children[1]) >= Depth(layout.children[2])
            THEN Depth(layout.children[1]) ELSE Depth(layout.children[2]))
  ELSE 0

\* the paths of all nodes of a tree, which is what the overlay renders
RECURSIVE NodePaths(_)
NodePaths(layout) ==
  IF IsObject(layout)
  THEN {<<>>} \cup {<<0>> \o p : p \in NodePaths(layout.children[1])}
              \cup {<<1>> \o p : p \in NodePaths(layout.children[2])}
  ELSE {<<>>}

LeafPaths(layout) == {p \in NodePaths(layout) : ~IsObject(getAt(layout, p))}

-----------------------------------------------------------------------------
(* The rendering/edit service: one session holding {layout, figsize}.      *)
(* A request is a record [ep, ...body]; the service either applies it to   *)
(* the session and answers with the new {layout, figsize} (a merge also    *)
(* with its inverse descriptor), or rejects it and changes nothing.        *)

Null == [null |-> TRUE]

IsNull(x) == "null" \in DOMAIN x

Flip(o) == IF o = "row" THEN "column" ELSE "row"

\* POST /edit/split: both children equal the original node, ratio (50,50)
SrvSplit(l, path, orient) ==
  PutAt(l, path, Node(orient, getAt(l, path), getAt(l, path), DEFAULT_RATIOS))

\* POST /edit/delete: the parent collapses to the sibling
SrvDelete(l, path) ==
  PutAt(l, Front(path), getAt(l, Front(path)).children[2 - path[Len(path)]])

\* POST /edit/insert: a Split at the parent with the new Leaf and the old node
SrvInsert(l, path, orient, ratios, value) ==
  LET old == getAt(l, Front(path))
  IN  PutAt(l, Front(path),
            IF path[Len(path)] = 0
            THEN Node(orient, Leaf(value), old, ratios)
            ELSE Node(orient, old, Leaf(value), ratios))

\* POST /edit/replace
SrvReplace(l, path, value) == PutAt(l, path, Leaf(value))

\* POST /edit/rotate: orientation only
SrvRotate(l, path) ==
  PutAt(l, path, [getAt(l, path) EXCEPT !.orient = Flip(@)])

\* one RestructureInfo ([path, ratios] or null) applied
SrvSetRatios(l, info) ==
  IF IsNull(info) THEN l
  ELSE PutAt(l, info.path, [getAt(l, info.path) EXCEPT !.ratios = info.ratios])

\* POST /edit/restructure: the row change, then the column change
SrvRestructure(l, row, column) == SrvSetRatios(SrvSetRatios(l, row), column)

\* POST /edit/swap: the two leaf values exchanged
SrvSwap(l, pathA, pathB) ==
  PutAt(PutAt(l, pathA, getAt(l, pathB)), pathB, getAt(l, pathA))

\* POST /edit/merge: the leaf at pathA takes over the region of pathB
SrvMerge(l, pathA, pathB) == SrvDelete(l, pathB)

\* the precondition the service checks; a request that fails it is rejected
SrvAccepts(s, req) ==
  CASE req.ep = "split"   -> CanGetAt(s.layout, req.path)
    [] req.ep = "delete"  -> req.path # <<>> /\ CanGetAt(s.layout, req.path)
    [] req.ep = "insert"  -> req.path # <<>> /\ CanGetAt(s.layout, Front(req.path))
    [] req.ep = "replace" -> CanGetLeaf(s.layout, req.path)
    [] req.ep = "rotate"  -> CanGetNode(s.layout, req.path)
    [] req.ep = "resize"  -> TRUE
    [] req.ep = "restructure" ->
         /\ IsNull(req.row) \/ CanGetNode(s.layout, req.row.path)
         /\ IsNull(req.column) \/ CanGetNode(s.layout, req.column.path)
    [] req.ep = "swap"    ->
         /\ req.pathA # req.pathB
         /\ CanGetLeaf(s.layout, req.pathA) /\ CanGetLeaf(s.layout, req.pathB)
    [] req.ep = "merge"   ->
         /\ req.pathA # <<>> /\ req.pathB # <<>>
         /\ Front(req.pathA) # Front(req.pathB)
         /\ CanGetLeaf(s.layout, req.pathA) /\ CanGetLeaf(s.layout, req.pathB)
    [] req.ep = "unmerge" -> s.layout = req.inverse.merged
    [] req.ep = "render"  -> TRUE

\* the session after an accepted request
SrvApply(s, req) ==
  CASE req.ep = "split"   -> [s EXCEPT !.layout = SrvSplit(@, req.path, req.orient)]
    [] req.ep = "delete"  -> [s EXCEPT !.layout = SrvDelete(@, req.path)]
    [] req.ep = "insert"  ->
         [s EXCEPT !.layout = SrvInsert(@, req.path, req.orient, req.ratios, req.value)]
    [] req.ep = "replace" -> [s EXCEPT !.layout = SrvReplace(@, req.path, req.value)]
    [] req.ep = "rotate"  -> [s EXCEPT !.layout = SrvRotate(@, req.path)]
    [] req.ep = "resize"  -> [s EXCEPT !.figsize = req.figsize]
    [] req.ep = "restructure" ->
         [s EXCEPT !.layout = SrvRestructure(@, req.row, req.column)]
    [] req.ep = "swap"    -> [s EXCEPT !.layout = SrvSwap(@, req.pathA, req.pathB)]
    [] req.ep = "merge"   -> [s EXCEPT !.layout = SrvMerge(@, req.pathA, req.pathB)]
    [] req.ep = "unmerge" -> [s EXCEPT !.layout = req.inverse.original]
    [] req.ep = "render"  -> [layout |-> req.layout, figsize |-> req.figsize]

\* the response body of an accepted request: FullResponse, or MergeResponse
SrvResponse(s, req) ==
  LET after == SrvApply(s, req)
  IN  IF req.ep = "merge"
      THEN [layout |-> after.layout, figsize |-> after.figsize,
            inverse |-> [original |-> s.layout, merged |-> after.layout]]
      ELSE [layout |-> after.layout, figsize |-> after.figsize]

-----------------------------------------------------------------------------
(* Reversible commands: lib/apiCalls.  A command is the ApiCall object a   *)
(* builder returns: its do() request and its undo() request.  id is the    *)
(* object's identity.                                                      *)

NoRequest == [ep |-> "none"]

Info(path, ratios) == [path |-> path, ratios |-> ratios]

\* apiCalls.delete throws unless the parent is a node and path names a leaf of it
CanBuildDelete(layout, path) ==
  /\ CanGetNode(layout, Front(path))
  /\ CanGetLeaf(getNode(layout, Front(path)), LastStep(path))

\* a delete that sends the path of the sibling
apiCallsDeleteSendsSibling(id, layout, path) ==
  LET parent == getNode(layout, Front(path))
  IN  [id |-> id, api |-> "delete",
       do |-> [ep |-> "delete",
               path |-> Front(path) \o <<1 - path[Len(path)]>>],
       undo |-> [ep |-> "insert", path |-> path, orient |-> parent.orient,
                 ratios |-> parent.ratios,
                 value |-> getLeaf(parent, LastStep(path))]]

\* a delete whose undo inserts with the default ratios
apiCallsDeleteDefaultRatios(id, layout, path) ==
  LET parent == getNode(layout, Front(path))
  IN  [id |-> id, api |-> "delete",
       do |-> [ep |-> "delete", path |-> path],
       undo |-> [ep |-> "insert", path |-> path, orient |-> parent.orient,
                 ratios |-> DEFAULT_RATIOS,
                 value |-> getLeaf(parent, LastStep(path))]]

apiCallsDelete(id, layout, path) ==
  LET parent == getNode(layout, Front(path))
  IN  [id |-> id, api |-> "delete",
       do |-> [ep |-> "delete", path |-> path],
       undo |-> [ep |-> "insert", path |-> path, orient |-> parent.orient,
                 ratios |-> parent.ratios,
                 value |-> getLeaf(parent, LastStep(path))]]

apiCallsInsert(id, path, orient, ratios, value) ==
  [id |-> id, api |-> "insert",
   do |-> [ep |-> "insert", path |-> path, orient |-> orient,
           ratios |-> ratios, value |-> value],
   undo |-> [ep |-> "delete", path |-> path]]

\* undo() reads the closure variable undoData when it is called
apiCallsMerge(id, pathA, pathB) ==
  [id |-> id, api |-> "merge",
   do |-> [ep |-> "merge", pathA |-> pathA, pathB |-> pathB],
   undo |-> [ep |-> "unmerge"]]

CanBuildReplace(layout, path) == CanGetLeaf(layout, path)

\* a replace whose undo puts the default leaf back
apiCallsReplaceUndoDefault(id, layout, path, value) ==
  [id |-> id, api |-> "replace",
   do |-> [ep |-> "replace", path |-> path, value |-> value],
   undo |-> [ep |-> "replace", path |-> path, value |-> DEFAULT_LEAF.value]]

apiCallsReplace(id, layout, path, value) ==
  [id |-> id, api |-> "replace",
   do |-> [ep |-> "replace", path |-> path, value |-> value],
   undo |-> [ep |-> "replace", path |-> path, value |-> getLeaf(layout, path)]]

apiCallsResize(id, figsize, newFigsize) ==
  [id |-> id, api |-> "resize",
   do |-> [ep |-> "resize", figsize |-> newFigsize],
   undo |-> [ep |-> "resize", figsize |-> figsize]]

CanBuildRestructure(layout, row, column) ==
  /\ IsNull(row) \/ CanGetNode(layout, row.path)
  /\ IsNull(column) \/ CanGetNode(layout, column.path)

\* a previous info that is the default ratio, whatever the Split had
PrevInfoDefault(layout, info) ==
  IF IsNull(info) THEN Null ELSE Info(info.path, DEFAULT_RATIOS)

PrevInfo(layout, info) ==
  IF IsNull(info) THEN Null
  ELSE Info(info.path, getNode(layout, info.path).ratios)

apiCallsRestructure(id, layout, row, column) ==
  [id |-> id, api |-> "restructure",
   do |-> [ep |-> "restructure", row |-> row, column |-> column],
   undo |-> [ep |-> "restructure", row |-> PrevInfo(layout, row),
             column |-> PrevInfo(layout, column)]]

\* a rotate whose undo rotates the root
apiCallsRotateUndoRotatesRoot(id, path) ==
  [id |-> id, api |-> "rotate",
   do |-> [ep |-> "rotate", path |-> path],
   undo |-> [ep |-> "rotate", path |-> <<>>]]

apiCallsRotate(id, path) ==
  [id |-> id, api |-> "rotate",
   do |-> [ep |-> "rotate", path |-> path],
   undo |-> [ep |-> "rotate", path |-> path]]

\* a split whose undo deletes the node it split
apiCallsSplitUndoDeletesNode(id, path, orient) ==
  [id |-> id, api |-> "split",
   do |-> [ep |-> "split", path |-> path, orient |-> orient],
   undo |-> [ep |-> "delete", path |-> path]]

apiCallsSplit(id, path, orient) ==
  [id |-> id, api |-> "split",
   do |-> [ep |-> "split", path |-> path, orient |-> orient],
   undo |-> [ep |-> "delete", path |-> path \o <<1>>]]

\* a swap whose undo is a swap of pathB with its sibling
apiCallsSwapUndoSwapsSibling(id, pathA, pathB) ==
  [id |-> id, api |-> "swap",
   do |-> [ep |-> "swap", pathA |-> pathA, pathB |-> pathB],
   undo |-> [ep |-> "swap", pathA |-> pathB,
             pathB |-> IF pathB = <<>> THEN pathA
                       ELSE Front(pathB) \o <<1 - pathB[Len(pathB)]>>]]

apiCallsSwap(id, pathA, pathB) ==
  [id |-> id, api |-> "swap",
   do |-> [ep |-> "swap", pathA |-> pathA, pathB |-> pathB],
   undo |-> [ep |-> "swap", pathA |-> pathB, pathB |-> pathA]]

\* undo() of a render resolves to null without a request
apiCallsRender(id, layout, figsize) ==
  [id |-> id, api |-> "render",
   do |-> [ep |-> "render", layout |-> layout, figsize |-> figsize],
   undo |-> NoRequest]

\* an undo() of a merge that sends unmerge with whatever undoData holds
UndoRequestUnchecked(call, data) ==
  IF call.api = "merge" THEN [ep |-> "unmerge", inverse |-> data[call.id]]
  ELSE call.undo

\* the request call.undo() sends, given the undoData of the merge closures
UndoRequest(call, data) ==
  IF call.api = "merge"
  THEN IF IsNull(data[call.id]) THEN NoRequest
       ELSE [ep |-> "unmerge", inverse |-> data[call.id]]
  ELSE call.undo

-----------------------------------------------------------------------------
(* History engine: historyReducer of useHistory *)

HistoryLimit == 50

Undefined == [undefined |-> TRUE]

IsUndefined(x) == "undefined" \in DOMAIN x

\* a.slice(-n)
SliceLast(a, n) == IF Len(a) <= n THEN a ELSE SubSeq(a, Len(a) - n + 1, Len(a))

\* a[a.length - 1] and a[0]: undefined on an empty array
LastOf(a) == IF a = <<>> THEN Undefined ELSE a[Len(a)]

FirstOf(a) == IF a = <<>> THEN Undefined ELSE a[1]

\* a.slice(1)
Rest(a) == IF a = <<>> THEN <<>> ELSE Tail(a)

Present(res) == [layout |-> res.layout, figsize |-> res.figsize]

\* PUSH that keeps the undone commands
ReducePushKeepsFuture(st, actionType, call, res) ==
  [past |-> SliceLast(Append(st.past, [type |-> actionType, call |-> call]),
                      HistoryLimit),
   present |-> Present(res),
   future |-> st.future]

\* PUSH that never drops an entry
ReducePushNoTrim(st, actionType, call, res) ==
  [past |-> Append(st.past, [type |-> actionType, call |-> call]),
   present |-> Present(res),
   future |-> <<>>]

ReducePush(st, actionType, call, res) ==
  [past |-> SliceLast(Append(st.past, [type |-> actionType, call |-> call]),
                      HistoryLimit),
   present |-> Present(res),
   future |-> <<>>]

\* UNDO that puts the entry at the end of future
ReduceUndoAppendsFuture(st, res) ==
  [past |-> Front(st.past),
   present |-> Present(res),
   future |-> Append(st.future, LastOf(st.past))]

ReduceUndo(st, res) ==
  [past |-> Front(st.past),
   present |-> Present(res),
   future |-> <<LastOf(st.past)>> \o st.future]

\* REDO that keeps the present it had
ReduceRedoKeepsPresent(st, res) ==
  [past |-> Append(st.past, FirstOf(st.future)),
   present |-> st.present,
   future |-> Rest(st.future)]

\* REDO that puts the entry at the front of past
ReduceRedoPrepends(st, res) ==
  [past |-> <<FirstOf(st.future)>> \o st.past,
   present |-> Present(res),
   future |-> Rest(st.future)]

ReduceRedo(st, res) ==
  [past |-> Append(st.past, FirstOf(st.future)),
   present |-> Present(res),
   future |-> Rest(st.future)]

ReduceSet(st, type, res) ==
  [past |-> IF type = "RESET" THEN <<>> ELSE st.past,
   present |-> Present(res),
   future |-> IF type = "RESET" THEN <<>> ELSE st.future]

canUndo == Len(state.past) > 0

canRedo == Len(state.future) > 0

-----------------------------------------------------------------------------
(* What the user can ask for *)

Funcs == {"draw_empty", "draw_scatter"}

FigSizes == {DEFAULT_FIGSIZE, <<6, 4>>}

RatioChoices == {<<3000, 7000>>, <<6000, 4000>>}

\* the layouts local storage can hold at startup
InitLayouts ==
  {DEFAULT_LAYOUT,
   Node("row", DEFAULT_LEAF,
        Node("column", DEFAULT_LEAF, Leaf("draw_scatter"), DEFAULT_RATIOS),
        DEFAULT_RATIOS)}

\* the configurations Import Config / Reset Layout can install
Configs ==
  {[layout |-> DEFAULT_LAYOUT, figsize |-> DEFAULT_FIGSIZE],
   [layout |-> Leaf("draw_scatter"), figsize |-> <<6, 4>>]}

\* the layout and size local storage can hold when useHistory is rendered:
\* those of startup, or the present stored since
StoredPresents(st) ==
  {[layout |-> l, figsize |-> DEFAULT_FIGSIZE] : l \in InitLayouts}
    \cup {st.present}

\* the split-panel ratio a tree of EditTrees has under an orientation
TreeRatios(o) == IF o = "row" THEN DEFAULT_RATIOS ELSE <<3000, 7000>>

SplitsOf(S) ==
  {Node(o, l, r, TreeRatios(o)) : o \in Orients, l \in S, r \in S}

\* every tree of at most two levels of splits over the leaf values of Funcs
EditTrees ==
  LET leaves == {Leaf(v) : v \in Funcs}
      shallow == leaves \cup SplitsOf(leaves)
  IN  shallow \cup SplitsOf(shallow)

\* the element id of the node at path: [0, ...path].join("-")
PathId(path) == <<0>> \o path

\* id.split("-").slice(1).map(Number)
IdPath(id) == Tail(id)

\* id.slice(0, -2): the id without its last index, "" for the root's "0"
IdParent(id) == IF Len(id) <= 1 THEN <<>> ELSE SubSeq(id, 1, Len(id) - 1)

\* the paths the overlay offers a rotate button for: the parents of leaves
LeafParents(layout) == {Front(p) : p \in LeafPaths(layout) \ {<<>>}}

-----------------------------------------------------------------------------
(* The session: sessionToken of App, set by performInit of useInit and by  *)
(* nothing else; every request carries it as its bearer token.             *)

\* a token: the one local storage held at startup, or one POST /session made
Token(name) == [bearer |-> name]

\* a session whose initialization has finished with the token of local storage
Established(seed) == [token |-> Token("stored"), init |-> "done", seed |-> seed]

\* the sessions App can be mounted with: local storage holds a token or none
Mounted(seed) ==
  {[token |-> t, init |-> "functions", seed |-> seed] :
     t \in {Null, Token("stored")}}

\* performInit after api.functions(): the token is health-checked if there
\* is one, else a session is created
InitFunctions ==
  /\ session.init = "functions"
  /\ session' = [session EXCEPT
                   !.init = IF IsNull(session.token) THEN "create" ELSE "health"]
  /\ UNCHANGED <<state, srv, undoData, calls, cmds, lost, races, lastDone,
                 chain, resizer, drag>>

\* performInit after api.health(activeToken): a token the service does not
\* know is removed from local storage and from the state
InitHealth ==
  /\ session.init = "health"
  /\ \E ok \in BOOLEAN :
       session' = IF ok THEN [session EXCEPT !.init = "render"]
                  ELSE [session EXCEPT !.token = Null, !.init = "create"]
  /\ UNCHANGED <<state, srv, undoData, calls, cmds, lost, races, lastDone,
                 chain, resizer, drag>>

\* performInit after api.render(layout, figsize, activeToken), which makes
\* the service hold the layout and size of the mount if it succeeds
InitRender ==
  /\ session.init = "render"
  /\ \E data \in BOOLEAN : srv' = IF data THEN session.seed ELSE srv
  /\ session' = [session EXCEPT !.init = "done"]
  /\ UNCHANGED <<state, undoData, calls, cmds, lost, races, lastDone, chain,
                 resizer, drag>>

\* performInit after api.session(layout, figsize): the token of the new
\* session is stored and set, if there is one
InitCreate ==
  /\ session.init = "create"
  /\ \E sessionData \in BOOLEAN :
       IF sessionData
       THEN /\ session' = [session EXCEPT !.token = Token("created"),
                                          !.init = "done"]
            /\ srv' = session.seed
       ELSE /\ session' = [session EXCEPT !.init = "done"]
            /\ srv' = srv
  /\ UNCHANGED <<state, undoData, calls, cmds, lost, races, lastDone, chain,
                 resizer, drag>>

-----------------------------------------------------------------------------
(* Client operations.  lim bounds a run: the operations that may await a   *)
(* response at once, the commands the user builds, the sizes the user      *)
(* resizes to, whether the user edits after an undo, and the depth up to   *)
(* which the user splits.                                                  *)

OneAtATime ==
  [pending |-> 1, races |-> 0, cmds |-> MaxCmds, sizes |-> FigSizes,
   fork |-> TRUE, depth |-> MaxDepth]

Long ==
  [pending |-> 1, races |-> 0, cmds |-> MaxLongCmds,
   sizes |-> {DEFAULT_FIGSIZE}, fork |-> FALSE, depth |-> MaxDepth]

Race ==
  [pending |-> MaxPending, races |-> MaxRaces, cmds |-> MaxRaceCmds,
   sizes |-> {DEFAULT_FIGSIZE}, fork |-> FALSE, depth |-> MaxDepth]

\* single edits of any tree of EditTrees, each followed by its undo
Edit ==
  [pending |-> 1, races |-> 0, cmds |-> MaxEditCmds,
   sizes |-> {DEFAULT_FIGSIZE}, fork |-> FALSE, depth |-> MaxDepth + MaxEditCmds]

\* the operations of the useHistory hook, called directly
Hook ==
  [pending |-> 1, races |-> 0, cmds |-> MaxHookCmds, sizes |-> FigSizes,
   fork |-> TRUE, depth |-> MaxDepth]

\* edits, resets and merges, and then undo for as long as it does something
Unwind ==
  [pending |-> 1, races |-> 0, cmds |-> MaxUnwindCmds, sizes |-> FigSizes,
   fork |-> FALSE, depth |-> MaxDepth]

CanIssue(lim) ==
  /\ Cardinality(calls) < lim.pending
  /\ calls # {} => races < lim.races

Raced == IF calls # {} THEN races + 1 ELSE races

CanBuild(lim) ==
  /\ CanIssue(lim)
  /\ cmds < lim.cmds
  /\ lim.fork \/ state.future = <<>>

\* a tag for a new pending call
FreeTag == CHOOSE k \in 1..(Cardinality(calls) + 1) : \A c \in calls : c.n # k

\* an operation that ends without a round trip and without a dispatch: the
\* builder threw ("threw"), the paths made it a no-op ("noop"), or there was
\* nothing to undo or redo and it returned null ("nothing")
End(op, type, outcome, built) ==
  /\ cmds' = cmds + built
  /\ lastDone' = [op |-> op, type |-> type, outcome |-> outcome]
  /\ chain' = [stage |-> "none"]
  /\ races' = Raced
  /\ UNCHANGED <<session, state, srv, undoData, calls, lost>>

\* the same, of an operation that is not the resizer's
Finish(op, type, outcome, built) ==
  End(op, type, outcome, built) /\ UNCHANGED <<resizer, drag>>

\* an operation that sends req and awaits the response
Send(op, entry, req) ==
  /\ cmds' = IF op = "exec" THEN cmds + 1 ELSE cmds
  /\ calls' = calls \cup {[n |-> FreeTag, op |-> op, entry |-> entry,
                           req |-> req, stage |-> "sent", sent |-> 1,
                           res |-> Null, at |-> state.present,
                           tok |-> session.token, toasts |-> 0]}
  /\ undoData' = IF op = "exec" /\ entry.call.api = "merge"
                 THEN undoData @@ (entry.call.id :> Null)
                 ELSE undoData
  /\ races' = Raced
  /\ UNCHANGED <<session, state, srv, lost, lastDone, chain>>

\* the same, of an operation that is not the resizer's
Start(op, entry, req) == Send(op, entry, req) /\ UNCHANGED <<resizer, drag>>

\* executeAction up to its await: the builder ran against the present
executeAction(type, call) ==
  Start("exec", [type |-> type, call |-> call], call.do)

\* a delete that leaves the check of the root path to the service
DeleteSendsRoot(lim) ==
  /\ CanBuild(lim)
  /\ \E path \in NodePaths(state.present.layout) :
       IF path = <<>>
       THEN executeAction("DELETE",
              [id |-> cmds + 1, api |-> "delete",
               do |-> [ep |-> "delete", path |-> path], undo |-> NoRequest])
       ELSE IF CanBuildDelete(state.present.layout, path)
            THEN executeAction("DELETE",
                   apiCallsDelete(cmds + 1, state.present.layout, path))
            ELSE Finish("exec", "DELETE", "threw", 0)

Delete(lim) ==
  /\ CanBuild(lim)
  /\ \E path \in NodePaths(state.present.layout) :
       IF CanBuildDelete(state.present.layout, path)
       THEN executeAction("DELETE",
              apiCallsDelete(cmds + 1, state.present.layout, path))
       ELSE Finish("exec", "DELETE", "threw", 0)

\* a merge that only turns identical paths away
MergeSendsSiblings(lim) ==
  /\ CanBuild(lim)
  /\ \E pA, pB \in LeafPaths(state.present.layout) :
       IF PathId(pA) = PathId(pB)
       THEN Finish("exec", "MERGE", "noop", 0)
       ELSE executeAction("MERGE",
              apiCallsMerge(cmds + 1, IdPath(PathId(pA)), IdPath(PathId(pB))))

Merge(lim) ==
  /\ CanBuild(lim)
  /\ \E pA, pB \in LeafPaths(state.present.layout) :
       IF PathId(pA) = PathId(pB)
          \/ IdParent(PathId(pA)) = IdParent(PathId(pB))
       THEN Finish("exec", "MERGE", "noop", 0)
       ELSE executeAction("MERGE",
              apiCallsMerge(cmds + 1, IdPath(PathId(pA)), IdPath(PathId(pB))))

Insert(lim) ==
  /\ CanBuild(lim)
  /\ Depth(state.present.layout) < lim.depth
  /\ \E path \in LeafPaths(state.present.layout), orient \in Orients :
       /\ path # <<>>
       /\ executeAction("INSERT",
            apiCallsInsert(cmds + 1, path, orient, <<3000, 7000>>, "draw_scatter"))

Replace(lim) ==
  /\ CanBuild(lim)
  /\ \E path \in LeafPaths(state.present.layout) \cup {<<>>}, value \in Funcs :
       IF CanBuildReplace(state.present.layout, path)
       THEN executeAction("REPLACE",
              apiCallsReplace(cmds + 1, state.present.layout, path, value))
       ELSE Finish("exec", "REPLACE", "threw", 0)

Resize(lim) ==
  /\ CanBuild(lim)
  /\ \E targetSize \in lim.sizes :
       executeAction("RESIZE",
         apiCallsResize(cmds + 1, state.present.figsize, targetSize))

\* the effect of useRestructure with the settled bucket values
Restructure(lim) ==
  /\ CanBuild(lim)
  /\ \E p \in NodePaths(state.present.layout), r \in RatioChoices :
       /\ CanGetNode(state.present.layout, p)
       /\ LET info == Info(p, r)
              row == IF getNode(state.present.layout, p).orient = "row"
                     THEN info ELSE Null
              column == IF getNode(state.present.layout, p).orient = "row"
                        THEN Null ELSE info
          IN  executeAction("RESTRUCTURE",
                apiCallsRestructure(cmds + 1, state.present.layout, row, column))

Rotate(lim) ==
  /\ CanBuild(lim)
  /\ \E path \in LeafParents(state.present.layout) \cup {<<>>} :
       executeAction("ROTATE", apiCallsRotate(cmds + 1, path))

Split(lim) ==
  /\ CanBuild(lim)
  /\ Depth(state.present.layout) < lim.depth
  /\ \E path \in LeafPaths(state.present.layout), orient \in Orients :
       executeAction("SPLIT", apiCallsSplit(cmds + 1, path, orient))

\* a swap that turns no pair of paths away
SwapSendsSame(lim) ==
  /\ CanBuild(lim)
  /\ \E pA, pB \in LeafPaths(state.present.layout) :
       executeAction("SWAP",
         apiCallsSwap(cmds + 1, IdPath(PathId(pA)), IdPath(PathId(pB))))

Swap(lim) ==
  /\ CanBuild(lim)
  /\ \E pA, pB \in LeafPaths(state.present.layout) :
       IF PathId(pA) = PathId(pB)
       THEN Finish("exec", "SWAP", "noop", 0)
       ELSE executeAction("SWAP",
              apiCallsSwap(cmds + 1, IdPath(PathId(pA)), IdPath(PathId(pB))))

\* useLayoutActions.reset: load a configuration, reset to defaults
ResetLayout(lim) ==
  /\ CanBuild(lim)
  /\ \E c \in Configs :
       executeAction("RESET", apiCallsRender(cmds + 1, c.layout, c.figsize))

\* undo that dispatches UNDO before it looks at past
UndoDispatchesFirst(lim) ==
  /\ CanIssue(lim)
  /\ IF Len(state.past) = 0
     THEN /\ state' = ReduceUndo(state, state.present)
          /\ lastDone' = [op |-> "undo", type |-> "", outcome |-> "nothing"]
          /\ chain' = [stage |-> "none"]
          /\ races' = Raced
          /\ UNCHANGED <<session, srv, undoData, calls, cmds, lost, resizer, drag>>
     ELSE LET delta == state.past[Len(state.past)]
          IN  IF IsUndefined(delta) THEN Finish("undo", "", "threw", 0)
              ELSE IF UndoRequest(delta.call, undoData) = NoRequest
                   THEN Finish("undo", delta.type, "nothing", 0)
                   ELSE Start("undo", delta, UndoRequest(delta.call, undoData))

\* useHistory.undo up to its await
Undo(lim) ==
  /\ CanIssue(lim)
  /\ IF Len(state.past) = 0 THEN Finish("undo", "", "nothing", 0)
     ELSE LET delta == state.past[Len(state.past)]
          IN  IF IsUndefined(delta) THEN Finish("undo", "", "threw", 0)
              ELSE IF UndoRequest(delta.call, undoData) = NoRequest
                   THEN Finish("undo", delta.type, "nothing", 0)
                   ELSE Start("undo", delta, UndoRequest(delta.call, undoData))

\* useHistory.redo up to its await
Redo(lim) ==
  /\ CanIssue(lim)
  /\ IF Len(state.future) = 0 THEN Finish("redo", "", "nothing", 0)
     ELSE LET delta == state.future[1]
          IN  IF IsUndefined(delta) THEN Finish("redo", "", "threw", 0)
              ELSE Start("redo", delta, delta.call.do)

\* useHistory.reset(layout, figsize): dispatches RESET with the hook's
\* initialLayout and initialFigsize, whatever it is given
HistoryReset(lim) ==
  /\ CanIssue(lim)
  /\ \E given \in Configs, initial \in StoredPresents(state) :
       /\ state' = ReduceSet(state, "RESET", initial)
       /\ lastDone' = [op |-> "reset", type |-> "RESET", outcome |-> "ok",
                       given |-> given]
  /\ chain' = [stage |-> "none"]
  /\ races' = Raced
  /\ UNCHANGED <<session, srv, undoData, calls, cmds, lost, resizer, drag>>

\* useHistory.setPresent(layout, figsize): dispatches SET with what it is given
HistorySetPresent(lim) ==
  /\ CanIssue(lim)
  /\ \E given \in Configs :
       /\ state' = ReduceSet(state, "SET", given)
       /\ lastDone' = [op |-> "set", type |-> "SET", outcome |-> "ok",
                       given |-> given]
  /\ chain' = [stage |-> "none"]
  /\ races' = Raced
  /\ UNCHANGED <<session, srv, undoData, calls, cmds, lost, resizer, drag>>

-----------------------------------------------------------------------------
(* The actions of useLayoutActions called with any path, whether the       *)
(* present tree has a node there or not: a builder that reads the tree     *)
(* throws on a path it cannot follow, and executeAction's promise rejects  *)
(* before a request is made; a builder that does not read the tree makes   *)
(* its command of any path.                                                *)

RECURSIVE PathsOfLen(_)
PathsOfLen(n) ==
  IF n = 0 THEN {<<>>}
  ELSE {p \o <<i>> : p \in PathsOfLen(n - 1), i \in {0, 1}}

\* every LPath of binary indices up to MaxPathLen
AnyPaths == UNION {PathsOfLen(n) : n \in 0..MaxPathLen}

DeleteAt(lim) ==
  /\ CanBuild(lim)
  /\ \E path \in AnyPaths :
       IF CanBuildDelete(state.present.layout, path)
       THEN executeAction("DELETE",
              apiCallsDelete(cmds + 1, state.present.layout, path))
       ELSE Finish("exec", "DELETE", "threw", 0)

InsertAt(lim) ==
  /\ CanBuild(lim)
  /\ \E path \in AnyPaths, orient \in Orients :
       executeAction("INSERT",
         apiCallsInsert(cmds + 1, path, orient, <<3000, 7000>>, "draw_scatter"))

MergeAt(lim) ==
  /\ CanBuild(lim)
  /\ \E pA, pB \in AnyPaths :
       IF PathId(pA) = PathId(pB)
          \/ IdParent(PathId(pA)) = IdParent(PathId(pB))
       THEN Finish("exec", "MERGE", "noop", 0)
       ELSE executeAction("MERGE",
              apiCallsMerge(cmds + 1, IdPath(PathId(pA)), IdPath(PathId(pB))))

ReplaceAt(lim) ==
  /\ CanBuild(lim)
  /\ \E path \in AnyPaths, value \in Funcs :
       IF CanBuildReplace(state.present.layout, path)
       THEN executeAction("REPLACE",
              apiCallsReplace(cmds + 1, state.present.layout, path, value))
       ELSE Finish("exec", "REPLACE", "threw", 0)

\* apiCalls.restructure, as the resizer's effect calls it, with any infos
RestructureAt(lim) ==
  /\ CanBuild(lim)
  /\ \E p \in AnyPaths, o \in Orients :
       LET row == IF o = "row" THEN Info(p, <<6000, 4000>>) ELSE Null
           column == IF o = "row" THEN Null ELSE Info(p, <<6000, 4000>>)
       IN  IF CanBuildRestructure(state.present.layout, row, column)
           THEN executeAction("RESTRUCTURE",
                  apiCallsRestructure(cmds + 1, state.present.layout, row, column))
           ELSE Finish("exec", "RESTRUCTURE", "threw", 0)

RotateAt(lim) ==
  /\ CanBuild(lim)
  /\ \E path \in AnyPaths :
       executeAction("ROTATE", apiCallsRotate(cmds + 1, path))

SplitAt(lim) ==
  /\ CanBuild(lim)
  /\ \E path \in AnyPaths, orient \in Orients :
       executeAction("SPLIT", apiCallsSplit(cmds + 1, path, orient))

SwapAt(lim) ==
  /\ CanBuild(lim)
  /\ \E pA, pB \in AnyPaths :
       IF PathId(pA) = PathId(pB)
       THEN Finish("exec", "SWAP", "noop", 0)
       ELSE executeAction("SWAP",
              apiCallsSwap(cmds + 1, IdPath(PathId(pA)), IdPath(PathId(pB))))

-----------------------------------------------------------------------------
(* The resizer: useRestructure.  The overlay proposes a ratio pair for a   *)
(* Split on every move of a separator; a proposal that passes the epsilon  *)
(* filter goes to the debounced setter of its orientation, and when that   *)
(* setter's timer fires the state it sets makes the effect run, which      *)
(* executes one restructure.                                               *)

\* 0.01, in hundredths of a percent
RESIZE_EPSILON == 1

Abs(x) == IF x < 0 THEN -x ELSE x

\* a filter that lets every change through, however small
didResizeAtAll(oldRatios, newRatios) ==
  \E idx \in 1..Len(oldRatios) : Abs(oldRatios[idx] - newRatios[idx]) > 0

didResize(oldRatios, newRatios) ==
  \E idx \in 1..Len(oldRatios) :
    Abs(oldRatios[idx] - newRatios[idx]) > RESIZE_EPSILON

\* a Resize value: [parentPathId, [leftUp, rightDown]]
ResizeOf(id, ratios) == [id |-> id, ratios |-> ratios]

\* both states null; no debounced call pending
NoResize == [o \in Orients |-> Null]

\* the ratio pairs a separator is dragged to: on, next to and away from the
\* ratios of the trees
Proposals == {<<5001, 4999>>, <<6000, 4000>>, <<6001, 3999>>}

\* the Splits of a tree: each has a separator
SplitPaths(layout) == NodePaths(layout) \ LeafPaths(layout)

\* a drag of separators: proposals at any time, timers that fire only when
\* no request is in flight, each restructure possibly undone
Dragging ==
  [pending |-> 1, races |-> 0, cmds |-> MaxDragCmds, sizes |-> {DEFAULT_FIGSIZE},
   fork |-> TRUE, depth |-> MaxDepth]

\* the same with timers that fire, and renders that happen, while a
\* restructure is in flight
Coalescing ==
  [pending |-> MaxPending, races |-> MaxRaces, cmds |-> MaxCoalesceCmds,
   sizes |-> {DEFAULT_FIGSIZE}, fork |-> TRUE, depth |-> MaxDepth]

\* one proposal as the window of its orientation records it
Proposed(id, ratios, was, kept) ==
  [id |-> id, ratios |-> ratios, was |-> was, kept |-> kept]

\* the RestructureInfo the effect makes of a state: [path, ratios] or null
InfoOf(resize) ==
  IF IsNull(resize) THEN Null ELSE Info(IdPath(resize.id), resize.ratios)

\* the effect of useRestructure, run with the states r: it executes one
\* restructure built from both states against the present tree; when the
\* builder throws, executeAction's promise rejects and the finally empties
\* both states
useRestructureEffect(r, d) ==
  LET row == InfoOf(r.restructure["row"])
      column == InfoOf(r.restructure["column"])
      call == apiCallsRestructure(cmds + 1, state.present.layout, row, column)
  IN  IF CanBuildRestructure(state.present.layout, row, column)
      THEN /\ Send("exec", [type |-> "RESTRUCTURE", call |-> call], call.do)
           /\ resizer' = r
           /\ drag' = [d EXCEPT !.sent =
                         [o \in Orients |->
                            IF IsNull(r.restructure[o]) THEN @[o] ELSE @[o] + 1]]
      ELSE /\ End("exec", "RESTRUCTURE", "threw", 0)
           /\ resizer' = [r EXCEPT !.restructure = NoResize]
           /\ drag' = [d EXCEPT !.sent = [o \in Orients |-> 0]]

\* a callback that sets the state of its orientation at once, so that every
\* proposal that passes the filter runs the effect
restructureCallbackUndebounced(lim) ==
  /\ CanBuild(lim)
  /\ drag.made < MaxProposals
  /\ \E p \in SplitPaths(state.present.layout), ratios \in Proposals :
       LET parentPathId == PathId(p)
           parentNode == getNode(state.present.layout, IdPath(parentPathId))
       IN  /\ didResize(parentNode.ratios, ratios)
           /\ useRestructureEffect(
                [resizer EXCEPT !.restructure[parentNode.orient] =
                   ResizeOf(parentPathId, ratios)],
                [drag EXCEPT !.made = @ + 1])

\* restructureCallback(restructuredLayout): the target and its orientation
\* are read from the present tree; a proposal within epsilon of the Split's
\* ratios, or of the value the state of its orientation holds, goes nowhere;
\* any other restarts the debounce timer of its orientation with its value
restructureCallback(lim) ==
  \E p \in SplitPaths(state.present.layout), ratios \in Proposals :
    LET parentPathId == PathId(p)
        parentNode == getNode(state.present.layout, IdPath(parentPathId))
        orient == parentNode.orient
        prevValue == resizer.restructure[orient]
        kept == /\ didResize(parentNode.ratios, ratios)
                /\ IsNull(prevValue) \/ didResize(prevValue.ratios, ratios)
        timing == ~IsNull(resizer.debounced[orient])
    IN  /\ drag.made < MaxProposals
        /\ lastDone' = [op |-> "propose", type |-> "RESTRUCTURE",
                        outcome |-> IF kept THEN "debounced" ELSE "filtered",
                        orient |-> orient, id |-> parentPathId,
                        ratios |-> ratios]
        /\ resizer' = IF kept
                      THEN [resizer EXCEPT !.debounced[orient] =
                              ResizeOf(parentPathId, ratios)]
                      ELSE resizer
        /\ drag' = IF kept \/ timing
                   THEN [drag EXCEPT !.made = @ + 1, !.window[orient] =
                           Append(@, Proposed(parentPathId, ratios,
                                              parentNode.ratios, kept))]
                   ELSE [drag EXCEPT !.made = @ + 1]
        /\ chain' = [stage |-> "none"]
        /\ UNCHANGED <<session, state, srv, undoData, calls, cmds, lost, races>>

\* debounce timers fire, one or both in the same tick: each sets its state
\* to the value of the last call, and the render that follows runs the effect
Settle(lim) ==
  /\ CanBuild(lim)
  /\ \E fired \in (SUBSET Orients) \ {{}} :
       /\ \A o \in fired : ~IsNull(resizer.debounced[o])
       /\ useRestructureEffect(
            [restructure |-> [o \in Orients |->
                                IF o \in fired THEN resizer.debounced[o]
                                ELSE resizer.restructure[o]],
             debounced |-> [o \in Orients |->
                              IF o \in fired THEN Null
                              ELSE resizer.debounced[o]]],
            [drag EXCEPT !.settles = @ + 1,
                         !.last = [o \in Orients |->
                                     IF o \in fired THEN drag.window[o]
                                     ELSE <<>>],
                         !.window = [o \in Orients |->
                                       IF o \in fired THEN <<>> ELSE @[o]],
                         !.sent = [o \in Orients |->
                                     IF o \in fired THEN 0 ELSE @[o]]])

\* the component renders again, for any reason, while a state is set:
\* executeAction is a new function on every render, so the effect runs again
Rerender(lim) ==
  /\ CanBuild(lim)
  /\ \E o \in Orients : ~IsNull(resizer.restructure[o])
  /\ useRestructureEffect(resizer, drag)

-----------------------------------------------------------------------------
(* The grid handlers: useGridCallbacks of lib/history over the snapshot     *)
(* history of the same file.  They edit the tree locally: each computes    *)
(* the next tree from the present one and hands it to setPresent, which    *)
(* pushes the present snapshot.                                            *)

\* setNode throws on a leaf layout, on an empty path, and when a step before
\* the last lands on a leaf
RECURSIVE CanSetNode(_, _)
CanSetNode(layout, path) ==
  /\ IsObject(layout)
  /\ path # <<>>
  /\ Len(path) = 1 \/ CanSetNode(layout.children[Head(path) + 1], Tail(path))

\* the layout after setNode(layout, path, val) assigned the child
RECURSIVE setNode(_, _, _)
setNode(layout, path, val) ==
  IF Len(path) = 1
  THEN [layout EXCEPT !.children[path[1] + 1] = val]
  ELSE [layout EXCEPT !.children[Head(path) + 1] = setNode(@, Tail(path), val)]

\* historyReducer SET of the snapshot history: nothing if the tree and the
\* size are the present ones, else the present is pushed onto past
ReduceSetPresent(st, layout, figsize) ==
  IF st.present.layout = layout /\ st.present.figsize = figsize THEN st
  ELSE [past |-> SliceLast(Append(st.past, st.present), HistoryLimit),
        present |-> [layout |-> layout, figsize |-> figsize],
        future |-> <<>>]

CanUpdateAtSubPath(prev, path) ==
  path = <<>> \/ CanGetNode(prev, Front(path))

\* the node updateAtSubPath hands to its updater: the root, or the child of
\* the parent node
SubPathNode(prev, path) ==
  IF path = <<>> THEN prev
  ELSE getNode(prev, Front(path)).children[path[Len(path)] + 1]

\* updateAtSubPath(path, updater); the updater is a function of the node
updateAtSubPath(prev, path, updater) ==
  IF path = <<>> THEN updater[prev]
  ELSE setNode(prev, path, updater[SubPathNode(prev, path)])

handleLeaf(prev, path, value) ==
  updateAtSubPath(prev, path,
    [currentLeaf \in {SubPathNode(prev, path)} |-> Leaf(value)])

\* a split that makes a Split of one child
handleSplitOneChild(prev, path, orient) ==
  updateAtSubPath(prev, path,
    [currentLeaf \in {SubPathNode(prev, path)} |->
      [orient |-> orient, children |-> <<currentLeaf>>, ratios |-> DEFAULT_RATIOS]])

handleSplit(prev, path, orient) ==
  updateAtSubPath(prev, path,
    [currentLeaf \in {SubPathNode(prev, path)} |->
      Node(orient, currentLeaf, currentLeaf, <<5000, 5000>>)])

\* [...parentPath, siblingIx]
SiblingPath(path) == Front(path) \o <<1 - path[Len(path)]>>

\* handleDelete throws at the root and unless the sibling is a leaf
CanHandleDelete(prev, path) ==
  path # <<>> /\ CanGetLeaf(prev, SiblingPath(path))

\* a delete that puts the deleted child where the parent stood
handleDeleteKeepsDeleted(prev, path) ==
  IF Front(path) = <<>> THEN getAt(prev, path)
  ELSE setNode(prev, Front(path), getAt(prev, path))

handleDelete(prev, path) ==
  LET siblingLeaf == Leaf(getLeaf(prev, SiblingPath(path)))
  IN  IF Front(path) = <<>> THEN siblingLeaf
      ELSE setNode(prev, Front(path), siblingLeaf)

\* handleSwap throws on a leaf root and unless both paths address leaves
CanHandleSwap(prev, pathA, pathB) ==
  IsObject(prev) /\ CanGetLeaf(prev, pathA) /\ CanGetLeaf(prev, pathB)

handleSwap(prev, pathA, pathB) ==
  LET valA == Leaf(getLeaf(prev, pathA))
      valB == Leaf(getLeaf(prev, pathB))
  IN  setNode(setNode(prev, pathA, valB), pathB, valA)

\* rowParentNode.ratios = [...]: the node at the path of a Resize, resized
Resized(layout, resize) ==
  IF IsNull(resize) THEN layout
  ELSE IF IdPath(resize.id) = <<>>
       THEN [layout EXCEPT !.ratios = resize.ratios]
       ELSE setNode(layout, IdPath(resize.id),
                    [getNode(layout, IdPath(resize.id))
                       EXCEPT !.ratios = resize.ratios])

CanResize(layout, resize) ==
  IsNull(resize) \/ CanGetNode(layout, IdPath(resize.id))

\* a resize effect that gives the ratios to every Split of the orientation
resizeEffectAllOfOrient(prev, rowResize, columnResize) ==
  LET RECURSIVE All(_)
      All(n) ==
        IF ~IsObject(n) THEN n
        ELSE [orient |-> n.orient,
              children |-> <<All(n.children[1]), All(n.children[2])>>,
              ratios |-> IF n.orient = "row" /\ ~IsNull(rowResize)
                         THEN rowResize.ratios
                         ELSE IF n.orient = "column" /\ ~IsNull(columnResize)
                              THEN columnResize.ratios ELSE n.ratios]
  IN  All(prev)

\* the effect that follows rowResize and columnResize
resizeEffect(prev, rowResize, columnResize) ==
  Resized(Resized(prev, rowResize), columnResize)

\* edits of the grid, one after the other
Grid ==
  [pending |-> 1, races |-> 0, cmds |-> MaxGridCmds, sizes |-> {DEFAULT_FIGSIZE},
   fork |-> FALSE, depth |-> MaxDepth]

\* the edits made so far in a run of the grid, each with the tree it edited
GridLog == IF chain.stage = "edited" THEN chain.log ELSE <<>>

\* setLayout(updater) of the overlay: the updater runs on the present tree
\* and setPresent gets its result; if it throws, nothing is set
setLayout(type, args, can, next) ==
  /\ cmds' = cmds + 1
  /\ lastDone' = [op |-> "grid", type |-> type,
                  outcome |-> IF can THEN "ok" ELSE "threw", args |-> args]
  /\ state' = IF can
              THEN ReduceSetPresent(state, next, state.present.figsize)
              ELSE state
  /\ chain' = IF can
              THEN [stage |-> "edited", before |-> state.present,
                    log |-> Append(GridLog, [type |-> type, args |-> args,
                                             before |-> state.present.layout])]
              ELSE chain
  /\ UNCHANGED <<session, srv, undoData, calls, lost, races, resizer, drag>>

\* the function select of a leaf cell
GridLeaf(lim) ==
  /\ cmds < lim.cmds
  /\ \E path \in LeafPaths(state.present.layout), value \in Funcs :
       LET l == state.present.layout
       IN  setLayout("LEAF", [path |-> path, value |-> value],
                     CanUpdateAtSubPath(l, path),
                     IF CanUpdateAtSubPath(l, path)
                     THEN handleLeaf(l, path, value) ELSE l)

\* the split buttons of a leaf cell
GridSplit(lim) ==
  /\ cmds < lim.cmds
  /\ Depth(state.present.layout) < lim.depth
  /\ \E path \in LeafPaths(state.present.layout), orient \in Orients :
       LET l == state.present.layout
       IN  setLayout("SPLIT", [path |-> path, orient |-> orient],
                     CanUpdateAtSubPath(l, path),
                     IF CanUpdateAtSubPath(l, path)
                     THEN handleSplit(l, path, orient) ELSE l)

\* the delete button of a leaf cell
GridDelete(lim) ==
  /\ cmds < lim.cmds
  /\ \E path \in LeafPaths(state.present.layout) :
       LET l == state.present.layout
       IN  setLayout("DELETE", [path |-> path],
                     CanHandleDelete(l, path),
                     IF CanHandleDelete(l, path)
                     THEN handleDelete(l, path) ELSE l)

\* a leaf cell dropped on a leaf cell; on itself it is nothing
GridSwap(lim) ==
  /\ cmds < lim.cmds
  /\ \E pA, pB \in LeafPaths(state.present.layout) :
       LET l == state.present.layout
           pathA == IdPath(PathId(pA))
           pathB == IdPath(PathId(pB))
       IN  /\ PathId(pA) # PathId(pB)
           /\ setLayout("SWAP", [pathA |-> pathA, pathB |-> pathB],
                        CanHandleSwap(l, pathA, pathB),
                        IF CanHandleSwap(l, pathA, pathB)
                        THEN handleSwap(l, pathA, pathB) ELSE l)

\* the Resize values the buckets of an orientation can settle with
Resizes(layout, orient) ==
  {ResizeOf(PathId(p), r) :
     p \in {q \in SplitPaths(layout) : getNode(layout, q).orient = orient},
     r \in RatioChoices}

\* the resize effect with the values the Row and Column buckets settled with
GridResize(lim) ==
  /\ cmds < lim.cmds
  /\ \E rowResize \in Resizes(state.present.layout, "row") \cup {Null},
        columnResize \in Resizes(state.present.layout, "column") \cup {Null} :
       LET l == state.present.layout
           can == CanResize(l, rowResize) /\ CanResize(l, columnResize)
       IN  /\ ~IsNull(rowResize) \/ ~IsNull(columnResize)
           /\ setLayout("RESIZE", [row |-> rowResize, column |-> columnResize],
                        can,
                        IF can THEN resizeEffect(l, rowResize, columnResize)
                        ELSE l)

-----------------------------------------------------------------------------
(* The functions of lib/layout called by a caller that holds the present   *)
(* tree: getAt, getNode and getLeaf return a node or throw; setNode       *)
(* returns nothing and assigns to the children array of a node of the     *)
(* tree it is given.                                                       *)

\* the subtrees a caller sets
SetValues == {Leaf("draw_scatter"), DEFAULT_LAYOUT}

Layouts ==
  [pending |-> 1, races |-> 0, cmds |-> MaxLayoutCalls,
   sizes |-> {DEFAULT_FIGSIZE}, fork |-> FALSE, depth |-> MaxDepth]

\* getAt(layout, path), getNode(layout, path) or getLeaf(layout, path) with
\* the present tree
GetCall(lim) ==
  /\ cmds < lim.cmds
  /\ \E path \in AnyPaths, fn \in {"getAt", "getNode", "getLeaf"} :
       LET layout == state.present.layout
           can == CASE fn = "getAt" -> CanGetAt(layout, path)
                    [] fn = "getNode" -> CanGetNode(layout, path)
                    [] fn = "getLeaf" -> CanGetLeaf(layout, path)
           target == CASE fn = "getAt" -> getAt(layout, path)
                       [] fn = "getNode" -> getNode(layout, path)
                       [] fn = "getLeaf" -> Leaf(getLeaf(layout, path))
       IN  lastDone' = [op |-> "get", type |-> fn,
                        outcome |-> IF can THEN "ok" ELSE "threw",
                        path |-> path,
                        target |-> IF can THEN target ELSE Null]
  /\ cmds' = cmds + 1
  /\ chain' = [stage |-> "none"]
  /\ UNCHANGED <<session, state, srv, undoData, calls, lost, races, resizer, drag>>

\* setNode(layout, path, val) with the present tree: the assignment is made
\* in the tree that was passed, so the caller's tree is the tree assigned to
SetNodeCall(lim) ==
  /\ cmds < lim.cmds
  /\ \E path \in AnyPaths, val \in SetValues :
       LET layout == state.present.layout
           can == CanSetNode(layout, path)
       IN  /\ lastDone' = [op |-> "setNode", type |-> "",
                           outcome |-> IF can THEN "ok" ELSE "threw",
                           path |-> path, val |-> val]
           /\ state' = IF can
                       THEN [state EXCEPT !.present.layout =
                               setNode(layout, path, val)]
                       ELSE state
  /\ cmds' = cmds + 1
  /\ chain' = [stage |-> "called", before |-> state.present]
  /\ UNCHANGED <<session, srv, undoData, calls, lost, races, resizer, drag>>

-----------------------------------------------------------------------------
(* The round trip: api.apiRequest and the service *)

\* an apiRequest that returns null on a response that is not OK and tells
\* the user nothing
apiRequestNotOkSilent(c) == [c EXCEPT !.stage = "replied"]

\* what apiRequest makes of a response that is not OK: one toast.error with
\* the detail of the response, and null
apiRequestNotOk(c) == [c EXCEPT !.stage = "replied", !.toasts = @ + 1]

\* the service handles a request: applies it and answers with the session's
\* token and state, or rejects it (response not OK); it rejects a request
\* that carries no token
Serve ==
  \E c \in calls :
    /\ c.stage = "sent"
    /\ IF SrvAccepts(srv, c.req) /\ ~IsNull(c.tok)
       THEN /\ srv' = SrvApply(srv, c.req)
            /\ calls' = (calls \ {c}) \cup
                 {[c EXCEPT !.stage = "replied",
                            !.res = SrvResponse(srv, c.req) @@ [token |-> c.tok]]}
       ELSE /\ srv' = srv
            /\ calls' = (calls \ {c}) \cup {apiRequestNotOk(c)}
    /\ UNCHANGED <<session, state, undoData, cmds, lost, races, lastDone, chain,
                   resizer, drag>>

\* an apiRequest that answers a transport failure with a second request
apiRequestCatchRetries(c) ==
  [c EXCEPT !.stage = "sent", !.sent = @ + 1, !.res = Null, !.toasts = @ + 1]

\* what apiRequest makes of a transport failure: one toast.error, null, and
\* no second request
apiRequestCatch(c) ==
  [c EXCEPT !.stage = "replied", !.res = Null, !.toasts = @ + 1]

\* fetch or response.json() throws: the request or the response was lost
NetworkError ==
  \E c \in calls :
    /\ \/ c.stage = "sent" /\ lost' = lost
       \/ ~IsNull(c.res) /\ lost < MaxLost /\ lost' = lost + 1
    /\ calls' = (calls \ {c}) \cup {apiRequestCatch(c)}
    /\ UNCHANGED <<session, state, srv, undoData, cmds, races, lastDone, chain,
                   resizer, drag>>

\* a dispatch that records the command of a failed execute
DispatchPushesFailed(st, c) ==
  IF IsNull(c.res)
  THEN IF c.op = "exec" THEN [st EXCEPT !.past = Append(@, c.entry)] ELSE st
  ELSE CASE c.op = "exec" -> ReducePush(st, c.entry.type, c.entry.call, c.res)
         [] c.op = "undo" -> ReduceUndo(st, c.res)
         [] c.op = "redo" -> ReduceRedo(st, c.res)

\* the dispatch an operation makes when its await returns res
Dispatch(st, c) ==
  IF IsNull(c.res) THEN st
  ELSE CASE c.op = "exec" -> ReducePush(st, c.entry.type, c.entry.call, c.res)
         [] c.op = "undo" -> ReduceUndo(st, c.res)
         [] c.op = "redo" -> ReduceRedo(st, c.res)

\* an execute, then its undo, then its redo, each successful, in a row
ChainStep(ch, c, st) ==
  IF IsNull(c.res) THEN [stage |-> "none"]
  ELSE CASE c.op = "exec" ->
              [stage |-> "executed", id |-> c.entry.call.id,
               before |-> c.at, present |-> st.present]
         [] c.op = "undo" ->
              IF ch.stage = "executed" /\ ch.id = c.entry.call.id
              THEN [ch EXCEPT !.stage = "undone"] ELSE [stage |-> "none"]
         [] c.op = "redo" ->
              IF ch.stage = "undone" /\ ch.id = c.entry.call.id
              THEN [ch EXCEPT !.stage = "redone"] ELSE [stage |-> "none"]

\* a continuation that takes the token of the response for the session's
ReturnInstallsToken ==
  \E c \in calls :
    /\ c.stage = "replied"
    /\ state' = Dispatch(state, c)
    /\ undoData' = IF c.req.ep = "merge" /\ ~IsNull(c.res)
                   THEN [undoData EXCEPT ![c.entry.call.id] = c.res.inverse]
                   ELSE undoData
    /\ calls' = calls \ {c}
    /\ lastDone' = [op |-> c.op, type |-> c.entry.type,
                    outcome |-> IF IsNull(c.res) THEN "failed" ELSE "ok"]
    /\ chain' = ChainStep(chain, c, state')
    /\ session' = [session EXCEPT
                     !.token = IF IsNull(c.res) THEN Null ELSE c.res.token]
    /\ UNCHANGED <<srv, cmds, lost, races, resizer, drag>>

\* a continuation without the resizer's finally
ReturnWithoutFinally ==
  \E c \in calls :
    /\ c.stage = "replied"
    /\ state' = Dispatch(state, c)
    /\ undoData' = IF c.req.ep = "merge" /\ ~IsNull(c.res)
                   THEN [undoData EXCEPT ![c.entry.call.id] = c.res.inverse]
                   ELSE undoData
    /\ calls' = calls \ {c}
    /\ lastDone' = [op |-> c.op, type |-> c.entry.type,
                    outcome |-> IF IsNull(c.res) THEN "failed" ELSE "ok"]
    /\ chain' = ChainStep(chain, c, state')
    /\ UNCHANGED <<session, srv, cmds, lost, races, resizer, drag>>

\* the rest of executeAction, undo or redo after the await; the promise of
\* an executed restructure then runs the resizer's finally, which empties
\* both of its states
Return ==
  \E c \in calls :
    /\ c.stage = "replied"
    /\ state' = Dispatch(state, c)
    /\ undoData' = IF c.req.ep = "merge" /\ ~IsNull(c.res)
                   THEN [undoData EXCEPT ![c.entry.call.id] = c.res.inverse]
                   ELSE undoData
    /\ calls' = calls \ {c}
    /\ lastDone' = [op |-> c.op, type |-> c.entry.type,
                    outcome |-> IF IsNull(c.res) THEN "failed" ELSE "ok"]
    /\ chain' = ChainStep(chain, c, state')
    /\ resizer' = IF c.op = "exec" /\ c.entry.type = "RESTRUCTURE"
                  THEN [resizer EXCEPT !.restructure = NoResize]
                  ELSE resizer
    /\ drag' = IF c.op = "exec" /\ c.entry.type = "RESTRUCTURE"
               THEN [drag EXCEPT !.sent = [o \in Orients |-> 0]]
               ELSE drag
    /\ UNCHANGED <<session, srv, cmds, lost, races>>

-----------------------------------------------------------------------------
(* Specifications *)

Init ==
  /\ \E l \in InitLayouts :
       /\ state = [past |-> <<>>,
                   present |-> [layout |-> l, figsize |-> DEFAULT_FIGSIZE],
                   future |-> <<>>]
       /\ srv = [layout |-> l, figsize |-> DEFAULT_FIGSIZE]
       /\ session = Established([layout |-> l, figsize |-> DEFAULT_FIGSIZE])
  /\ undoData = <<>>
  /\ calls = {}
  /\ cmds = 0
  /\ lost = 0
  /\ races = 0
  /\ lastDone = [op |-> "none", type |-> "", outcome |-> "none"]
  /\ chain = [stage |-> "none"]
  /\ resizer = [restructure |-> NoResize, debounced |-> NoResize]
  /\ drag = [window |-> [o \in Orients |-> <<>>],
             sent |-> [o \in Orients |-> 0], settles |-> 0, made |-> 0,
             last |-> [o \in Orients |-> <<>>]]

\* the user issues one operation at a time, of every kind
Next ==
  \/ Delete(OneAtATime) \/ Merge(OneAtATime) \/ Insert(OneAtATime)
  \/ Replace(OneAtATime) \/ Resize(OneAtATime) \/ Restructure(OneAtATime)
  \/ Rotate(OneAtATime) \/ Split(OneAtATime) \/ Swap(OneAtATime)
  \/ ResetLayout(OneAtATime) \/ Undo(OneAtATime) \/ Redo(OneAtATime)
  \/ Serve \/ NetworkError \/ Return

Spec == Init /\ [][Next]_vars

\* a long run of edits at the tip of the history, one at a time, all served
NextLong ==
  \/ Resize(Long) \/ Undo(Long) \/ Redo(Long) \/ Serve \/ Return

SpecLong == Init /\ [][NextLong]_vars

\* the same long run with operations issued before earlier ones returned
NextRace ==
  \/ Resize(Race) \/ Undo(Race) \/ Redo(Race) \/ Serve \/ Return

SpecRace == Init /\ [][NextRace]_vars

\* one edit of a tree of EditTrees and its undo, all served
InitEdit ==
  /\ \E l \in EditTrees :
       /\ state = [past |-> <<>>,
                   present |-> [layout |-> l, figsize |-> DEFAULT_FIGSIZE],
                   future |-> <<>>]
       /\ srv = [layout |-> l, figsize |-> DEFAULT_FIGSIZE]
       /\ session = Established([layout |-> l, figsize |-> DEFAULT_FIGSIZE])
  /\ undoData = <<>>
  /\ calls = {}
  /\ cmds = 0
  /\ lost = 0
  /\ races = 0
  /\ lastDone = [op |-> "none", type |-> "", outcome |-> "none"]
  /\ chain = [stage |-> "none"]
  /\ resizer = [restructure |-> NoResize, debounced |-> NoResize]
  /\ drag = [window |-> [o \in Orients |-> <<>>],
             sent |-> [o \in Orients |-> 0], settles |-> 0, made |-> 0,
             last |-> [o \in Orients |-> <<>>]]

NextEdit ==
  \/ Delete(Edit) \/ Insert(Edit) \/ Merge(Edit) \/ Rotate(Edit)
  \/ Split(Edit) \/ Swap(Edit) \/ Undo(Edit) \/ Serve \/ Return

SpecEdit == InitEdit /\ [][NextEdit]_vars

\* the operations of the useHistory hook, one at a time, all served
NextHook ==
  \/ Resize(Hook) \/ Undo(Hook) \/ Redo(Hook)
  \/ HistoryReset(Hook) \/ HistorySetPresent(Hook) \/ Serve \/ Return

SpecHook == Init /\ [][NextHook]_vars

\* one change of a leaf's value in a tree of EditTrees and its undo, all served
NextLeaf == Replace(Edit) \/ Undo(Edit) \/ Serve \/ Return

SpecLeaf == InitEdit /\ [][NextLeaf]_vars

\* separators dragged, one restructure at a time, each possibly undone
NextDrag ==
  \/ restructureCallback(Dragging) \/ Settle(Dragging) \/ Undo(Dragging)
  \/ Serve \/ Return

SpecDrag == Init /\ [][NextDrag]_vars

\* separators dragged with timers firing and renders happening while a
\* restructure is in flight; every request is answered or fails, and every
\* answer is taken
NextCoalesce ==
  \/ restructureCallback(Coalescing) \/ Settle(Coalescing)
  \/ Rerender(Coalescing) \/ Serve \/ NetworkError \/ Return

SpecCoalesce ==
  Init /\ [][NextCoalesce]_vars /\ WF_vars(Serve) /\ WF_vars(Return)

\* one action called with any path on a tree of EditTrees, all served
NextPaths ==
  \/ DeleteAt(Edit) \/ InsertAt(Edit) \/ MergeAt(Edit) \/ ReplaceAt(Edit)
  \/ RestructureAt(Edit) \/ RotateAt(Edit) \/ SplitAt(Edit) \/ SwapAt(Edit)
  \/ Serve \/ Return

SpecPaths == InitEdit /\ [][NextPaths]_vars

\* the functions of lib/layout called with any path on a tree of EditTrees
NextLayout == GetCall(Layouts) \/ SetNodeCall(Layouts)

SpecLayout == InitEdit /\ [][NextLayout]_vars

\* the app from its mount: performInit runs while the sidebar already takes
\* resizes, resets, undo and redo; the overlay takes edits once it is done
InitSession ==
  /\ \E l \in InitLayouts :
       /\ state = [past |-> <<>>,
                   present |-> [layout |-> l, figsize |-> DEFAULT_FIGSIZE],
                   future |-> <<>>]
       /\ srv = [layout |-> l, figsize |-> DEFAULT_FIGSIZE]
       /\ session \in Mounted([layout |-> l, figsize |-> DEFAULT_FIGSIZE])
  /\ undoData = <<>>
  /\ calls = {}
  /\ cmds = 0
  /\ lost = 0
  /\ races = 0
  /\ lastDone = [op |-> "none", type |-> "", outcome |-> "none"]
  /\ chain = [stage |-> "none"]
  /\ resizer = [restructure |-> NoResize, debounced |-> NoResize]
  /\ drag = [window |-> [o \in Orients |-> <<>>],
             sent |-> [o \in Orients |-> 0], settles |-> 0, made |-> 0,
             last |-> [o \in Orients |-> <<>>]]

NextSession ==
  \/ InitFunctions \/ InitHealth \/ InitRender \/ InitCreate
  \/ Resize(OneAtATime) \/ ResetLayout(OneAtATime)
  \/ Undo(OneAtATime) \/ Redo(OneAtATime) \/ HistoryReset(OneAtATime)
  \/ (session.init = "done" /\ Replace(OneAtATime))
  \/ (session.init = "done" /\ Split(OneAtATime))
  \/ Serve \/ NetworkError \/ Return

SpecSession == InitSession /\ [][NextSession]_vars

\* the user builds commands of the kinds whose undo differs (a resize, a
\* merge, a loaded configuration) and undoes; every request is answered and
\* every answer is taken, and the user goes on pressing undo
NextUnwind ==
  \/ Resize(Unwind) \/ Merge(Unwind) \/ ResetLayout(Unwind) \/ Undo(Unwind)
  \/ Serve \/ Return

SpecUnwind ==
  /\ Init /\ [][NextUnwind]_vars
  /\ WF_vars(Undo(Unwind)) /\ WF_vars(Serve) /\ WF_vars(Return)

\* the trees local storage can hold when the grid is rendered
GridTrees == {DEFAULT_LEAF} \cup InitLayouts

InitGrid ==
  /\ \E l \in GridTrees :
       /\ state = [past |-> <<>>,
                   present |-> [layout |-> l, figsize |-> DEFAULT_FIGSIZE],
                   future |-> <<>>]
       /\ srv = [layout |-> l, figsize |-> DEFAULT_FIGSIZE]
       /\ session = Established([layout |-> l, figsize |-> DEFAULT_FIGSIZE])
  /\ undoData = <<>>
  /\ calls = {}
  /\ cmds = 0
  /\ lost = 0
  /\ races = 0
  /\ lastDone = [op |-> "none", type |-> "", outcome |-> "none"]
  /\ chain = [stage |-> "none"]
  /\ resizer = [restructure |-> NoResize, debounced |-> NoResize]
  /\ drag = [window |-> [o \in Orients |-> <<>>],
             sent |-> [o \in Orients |-> 0], settles |-> 0, made |-> 0,
             last |-> [o \in Orients |-> <<>>]]

\* the grid edited locally
NextGrid ==
  \/ GridLeaf(Grid) \/ GridSplit(Grid) \/ GridDelete(Grid)
  \/ GridSwap(Grid) \/ GridResize(Grid)

SpecGrid == InitGrid /\ [][NextGrid]_vars

-----------------------------------------------------------------------------
(* Properties *)

\* in this step the pending call c returned to its caller
Returned(c) ==
  /\ c \in calls
  /\ c.stage = "replied"
  /\ \A d \in calls' : d.n # c.n

\* in this step an operation op sent a request
Started(op) == \E c \in calls' : c.op = op /\ \A d \in calls : d.n # c.n

\* a is b with one entry appended, b's oldest entries possibly dropped
AppendedTo(a, b, entry) ==
  LET n == Len(a)
  IN  /\ n >= 1
      /\ a[n] = entry
      /\ n - 1 <= Len(b)
      /\ \A i \in 1..(n - 1) : a[i] = b[Len(b) - (n - 1) + i]
      /\ n - 1 = Len(b) \/ n = HistoryLimit

\* C1: when an execute returns with a response, its command is appended as
\* the last entry of past, present is the tree and size of the response, and
\* future is empty, whatever past and future held before.
C1_ExecutePushes ==
  [][\A c \in calls :
       Returned(c) /\ c.op = "exec" /\ ~IsNull(c.res) =>
         /\ AppendedTo(state'.past, state.past, c.entry)
         /\ state'.present = [layout |-> c.res.layout, figsize |-> c.res.figsize]
         /\ state'.future = <<>>]_vars

\* an execute has just returned successfully onto a non-empty past
C1_Witness ==
  /\ lastDone.op = "exec" /\ lastDone.outcome = "ok"
  /\ Len(state.past) >= 2
  /\ calls = {}

\* C2: when do() fails (the service rejected the request, or the transport
\* failed), execute leaves past, present and future as they were.
C2_FailedExecuteChangesNothing ==
  [][\A c \in calls :
       Returned(c) /\ c.op = "exec" /\ IsNull(c.res) => state' = state]_vars

\* an execute has just returned null with undone commands to lose
C2_Witness ==
  /\ lastDone.op = "exec" /\ lastDone.outcome = "failed"
  /\ state.future # <<>>

\* C3: whenever no request is in flight, the client's present tree and size
\* are those the service holds for the session.
C3_PresentMirrorsService == calls = {} => state.present = srv

\* C4: an execute, then its successful undo, then its successful redo leave
\* a present equal to the present right after the execute.
C4_UndoRedoRestores == chain.stage = "redone" => state.present = chain.present

\* a delete was executed, undone by an insert and redone
C4_Witness == chain.stage = "redone" /\ lastDone.type = "DELETE"

\* C5: a successful undo invoked undo() of the last entry of past, removes
\* that entry from the end of past, prepends it to future and installs the
\* tree and size of the response as present.
C5_UndoMovesLastEntry ==
  [][\A c \in calls :
       Returned(c) /\ c.op = "undo" /\ ~IsNull(c.res) =>
         /\ state.past # <<>>
         /\ c.entry = state.past[Len(state.past)]
         /\ c.req = UndoRequest(c.entry.call, undoData)
         /\ state'.past = SubSeq(state.past, 1, Len(state.past) - 1)
         /\ state'.future = <<c.entry>> \o state.future
         /\ state'.present = [layout |-> c.res.layout, figsize |-> c.res.figsize]]_vars

\* an undo has just succeeded with an entry already in future
C5_Witness ==
  /\ lastDone.op = "undo" /\ lastDone.outcome = "ok"
  /\ Len(state.future) >= 2

\* C6: a successful redo invoked do() of the first entry of future, removes
\* it from the front of future, appends it to the end of past and installs
\* the tree and size of the response as present.
C6_RedoMovesFirstEntry ==
  [][\A c \in calls :
       Returned(c) /\ c.op = "redo" /\ ~IsNull(c.res) =>
         /\ state.future # <<>>
         /\ c.entry = state.future[1]
         /\ c.req = c.entry.call.do
         /\ state'.future = Tail(state.future)
         /\ state'.past = state.past \o <<c.entry>>
         /\ state'.present = [layout |-> c.res.layout, figsize |-> c.res.figsize]]_vars

\* a redo has just succeeded onto a non-empty past
C6_Witness ==
  /\ lastDone.op = "redo" /\ lastDone.outcome = "ok"
  /\ Len(state.past) >= 2

\* C7: undo() with an empty past and redo() with an empty future send no
\* request and leave past, present and future unchanged.
C7_NothingToUndoOrRedo ==
  [][/\ state.past = <<>> => ~Started("undo")
     /\ state.future = <<>> => ~Started("redo")
     /\ (calls' = calls /\ lastDone'.op \in {"undo", "redo"}) => state' = state]_vars

\* undo() was called with an empty past
C7_Witness ==
  /\ lastDone = [op |-> "undo", type |-> "", outcome |-> "nothing"]
  /\ state.past = <<>>
  /\ state.future # <<>>

\* C8: a failed undo or redo round trip leaves past, present and future
\* unchanged and is not retried: the operation sent exactly one request.
C8_FailedUndoRedoNotRetried ==
  [][/\ \A c \in calls : c.sent = 1
     /\ \A c \in calls :
          Returned(c) /\ c.op \in {"undo", "redo"} /\ IsNull(c.res) =>
            /\ state' = state
            /\ calls' = calls \ {c}]_vars

\* an undo round trip has just failed
C8_Witness ==
  /\ lastDone.op = "undo" /\ lastDone.outcome = "failed"
  /\ calls = {}

\* C9: in every reachable state past holds at most 50 entries.
C9_PastAtMostLimit == Len(state.past) <= HistoryLimit

\* the ids of the commands of a list of entries
Ids(entries) == [i \in 1..Len(entries) |-> entries[i].call.id]

\* C10: after n > 50 executes in a row past is the 50 most recent commands
\* in execution order, the older ones are in neither list, and no undo
\* invokes undo() of a dropped command.
C10_OldestDropped ==
  /\ (calls = {} /\ state.future = <<>> /\ cmds > HistoryLimit) =>
       Ids(state.past) = [i \in 1..HistoryLimit |-> cmds - HistoryLimit + i]
  /\ calls = {} =>
       \A i \in 1..Len(state.past \o state.future) :
         (state.past \o state.future)[i].call.id > cmds - HistoryLimit
  /\ \A c \in calls :
       c.op = "undo" => c.entry.call.id > cmds - HistoryLimit

\* after 52 executes every undo that can be made has been made
C10_Witness ==
  /\ cmds = MaxLongCmds
  /\ state.past = <<>>
  /\ Len(state.future) = HistoryLimit
  /\ lastDone = [op |-> "undo", type |-> "", outcome |-> "nothing"]

\* C11: after reset(tree, size) present is exactly the given tree and size,
\* and past and future are empty.
C11_ResetInstallsGiven ==
  lastDone.op = "reset" =>
    state = [past |-> <<>>, present |-> lastDone.given, future |-> <<>>]

\* C12: after a load-configuration or reset-to-defaults action completed
\* successfully, past and future are empty and canUndo and canRedo are false.
C12_ResetNotUndoable ==
  (lastDone = [op |-> "exec", type |-> "RESET", outcome |-> "ok"] /\ calls = {}) =>
    /\ state.past = <<>> /\ state.future = <<>>
    /\ ~canUndo /\ ~canRedo

\* the command whose undo has just succeeded
Undone == state.future[1].call

\* C13: a split of a Leaf at any path, the root included, followed by its
\* undo, which is delete(path ++ [1]), restores the original tree.
C13_SplitUndoRestores ==
  (chain.stage = "undone" /\ lastDone.type = "SPLIT") =>
    /\ Undone.undo = [ep |-> "delete", path |-> Undone.do.path \o <<1>>]
    /\ state.present.layout = chain.before.layout

\* the split of a root Leaf has been undone
C13_Witness ==
  /\ chain.stage = "undone" /\ lastDone.type = "SPLIT"
  /\ Undone.do.path = <<>>
  /\ ~IsObject(chain.before.layout)

\* C14: delete(p) of a Leaf followed by its undo, an insert at p with the
\* orientation and ratio of p's parent and the value of the leaf, all taken
\* from the tree before the delete, restores that tree; and insert(p, o, r, v)
\* followed by its undo, delete(p), restores the tree before the insert.
C14_DeleteInsertInverse ==
  /\ (chain.stage = "undone" /\ lastDone.type = "DELETE") =>
       LET p == Undone.do.path
           parent == getAt(chain.before.layout, Front(p))
       IN  /\ Undone.undo = [ep |-> "insert", path |-> p,
                             orient |-> parent.orient, ratios |-> parent.ratios,
                             value |-> getAt(chain.before.layout, p).value]
           /\ state.present.layout = chain.before.layout
  /\ (chain.stage = "undone" /\ lastDone.type = "INSERT") =>
       /\ Undone.undo = [ep |-> "delete", path |-> Undone.do.path]
       /\ state.present.layout = chain.before.layout

\* a leaf next to a Split, under a parent with a ratio of its own, was
\* deleted and inserted again
C14_Witness ==
  /\ chain.stage = "undone" /\ lastDone.type = "DELETE"
  /\ LET p == Undone.do.path
     IN  /\ getAt(chain.before.layout, Front(p)).ratios # DEFAULT_RATIOS
         /\ IsObject(getAt(chain.before.layout, Front(p)).children[2 - p[Len(p)]])

\* path a leads to path b or to an ancestor of it
IsPrefix(a, b) == Len(a) <= Len(b) /\ SubSeq(b, 1, Len(a)) = a

\* after is before with the parent of p collapsed to the sibling of p:
\* the sibling stands where the parent stood, the parent's ancestors keep
\* their orientation and ratio, and every other node outside the parent's
\* subtree is where and what it was
Collapsed(before, after, p) ==
  LET parent == Front(p)
  IN  /\ CanGetAt(after, parent)
      /\ getAt(after, parent) = getAt(before, parent \o <<1 - p[Len(p)]>>)
      /\ \A q \in NodePaths(before) :
           IF IsPrefix(q, parent)
           THEN q # parent =>
                  /\ CanGetNode(after, q)
                  /\ getAt(after, q).orient = getAt(before, q).orient
                  /\ getAt(after, q).ratios = getAt(before, q).ratios
           ELSE ~IsPrefix(parent, q) =>
                  /\ CanGetAt(after, q)
                  /\ getAt(after, q) = getAt(before, q)

C16_RootDeleteRejected ==
  [][/\ \A c \in calls' : c.req.ep = "delete" => c.req.path # <<>>
     /\ (lastDone' # lastDone
         /\ lastDone' = [op |-> "exec", type |-> "DELETE", outcome |-> "threw"]) =>
          /\ state' = state
          /\ srv' = srv
          /\ calls' = calls]_vars

\* delete threw on a Split of two leaves: its path was the root's
C16_Witness ==
  /\ lastDone = [op |-> "exec", type |-> "DELETE", outcome |-> "threw"]
  /\ Depth(state.present.layout) = 1
  /\ state.past = <<>>
  /\ calls = {}

\* C17: for two distinct leaf paths, swap(pathA, pathB) followed by
\* swap(pathB, pathA), which is its undo, yields the original tree.
C17_SwapTwiceRestores ==
  (chain.stage = "undone" /\ lastDone.type = "SWAP") =>
    /\ Undone.do.pathA # Undone.do.pathB
    /\ Undone.undo = [ep |-> "swap", pathA |-> Undone.do.pathB,
                      pathB |-> Undone.do.pathA]
    /\ state.present.layout = chain.before.layout

\* two leaves of different values, at different depths, were swapped and
\* swapped back
C17_Witness ==
  /\ chain.stage = "undone" /\ lastDone.type = "SWAP"
  /\ Len(Undone.do.pathA) # Len(Undone.do.pathB)
  /\ getAt(chain.before.layout, Undone.do.pathA)
       # getAt(chain.before.layout, Undone.do.pathB)

\* C18: swap called with two identical paths sends no request, pushes no
\* entry and changes neither the tree nor the history.
C18_SwapSamePathNoop ==
  [][/\ \A c \in calls' : c.req.ep = "swap" => c.req.pathA # c.req.pathB
     /\ (lastDone' # lastDone
         /\ lastDone' = [op |-> "exec", type |-> "SWAP", outcome |-> "noop"]) =>
          /\ state' = state
          /\ srv' = srv
          /\ calls' = calls]_vars

\* swap was called with one leaf twice
C18_Witness ==
  /\ lastDone = [op |-> "exec", type |-> "SWAP", outcome |-> "noop"]
  /\ IsObject(state.present.layout)
  /\ state.past = <<>>
  /\ calls = {}

\* C19: merge called with identical paths or with the paths of two siblings
\* sends no request and pushes no entry; past, present and future are
\* unchanged.
C19_MergeSameOrSiblingNoop ==
  [][/\ \A c \in calls' :
          c.req.ep = "merge" =>
            /\ c.req.pathA # c.req.pathB
            /\ Front(c.req.pathA) # Front(c.req.pathB)
     /\ (lastDone' # lastDone
         /\ lastDone' = [op |-> "exec", type |-> "MERGE", outcome |-> "noop"]) =>
          /\ state' = state
          /\ srv' = srv
          /\ calls' = calls]_vars

\* merge was called on a tree whose leaves are all siblings or the same
C19_Witness ==
  /\ lastDone = [op |-> "exec", type |-> "MERGE", outcome |-> "noop"]
  /\ Depth(state.present.layout) = 1
  /\ state.past = <<>>
  /\ calls = {}

\* C20: rotate(p) of a Split changes only that Split's orientation, not its
\* children or ratio nor any other node, and rotate(p) followed by its
\* undo, which is rotate(p) again, restores the original tree.
C20_RotateTwiceRestores ==
  /\ (chain.stage = "executed" /\ lastDone.type = "ROTATE") =>
       LET p == state.past[Len(state.past)].call.do.path
           was == getAt(chain.before.layout, p)
           is == getAt(state.present.layout, p)
       IN  /\ IsObject(was) /\ IsObject(is)
           /\ is.orient \in Orients \ {was.orient}
           /\ is.children = was.children
           /\ is.ratios = was.ratios
           /\ PutAt(state.present.layout, p, was) = chain.before.layout
  /\ (chain.stage = "undone" /\ lastDone.type = "ROTATE") =>
       /\ Undone.undo = [ep |-> "rotate", path |-> Undone.do.path]
       /\ state.present.layout = chain.before.layout

\* a Split below the root was rotated and rotated back
C20_Witness ==
  /\ chain.stage = "undone" /\ lastDone.type = "ROTATE"
  /\ Undone.do.path # <<>>


\* C21: for every path addressing a Leaf, replace(path, value) followed by
\* its undo restores the original tree: the undo is replace(path,
\* previousValue), previousValue being the leaf's value in the tree before
\* the edit.
C21_ReplaceUndoRestores ==
  (chain.stage = "undone" /\ lastDone.type = "REPLACE") =>
    /\ CanGetLeaf(chain.before.layout, Undone.do.path)
    /\ Undone.undo = [ep |-> "replace", path |-> Undone.do.path,
                      value |-> getAt(chain.before.layout, Undone.do.path).value]
    /\ state.present.layout = chain.before.layout

\* a leaf below the root that did not hold the default value was given
\* another value and got its own back
C21_Witness ==
  /\ chain.stage = "undone" /\ lastDone.type = "REPLACE"
  /\ Len(Undone.do.path) = 2
  /\ Undone.do.value # Undone.undo.value
  /\ Undone.undo.value # DEFAULT_LEAF.value


\* C22: the undo of a restructure sets, for each Split the command names,
\* the ratio that Split had in the present tree when the command was built,
\* so a restructure followed by its undo restores the original tree.
C22_RestructureUndoRestores ==
  (chain.stage = "undone" /\ lastDone.type = "RESTRUCTURE") =>
    LET Previous(info) ==
          IF IsNull(info) THEN Null
          ELSE Info(info.path, getAt(chain.before.layout, info.path).ratios)
    IN  /\ Undone.undo = [ep |-> "restructure",
                          row |-> Previous(Undone.do.row),
                          column |-> Previous(Undone.do.column)]
        /\ state.present.layout = chain.before.layout

\* a restructure of a Row Split and a Column Split at once, the Row Split
\* resized before, has been undone
C22_Witness ==
  /\ chain.stage = "undone" /\ lastDone.type = "RESTRUCTURE"
  /\ ~IsNull(Undone.do.row) /\ ~IsNull(Undone.do.column)
  /\ Undone.undo.row.ratios # DEFAULT_RATIOS
  /\ Undone.undo.row.ratios # Undone.do.row.ratios


\* the info of one orientation in a restructure request
Named(req, o) == IF o = "row" THEN req.row ELSE req.column

\* a window holding two proposals for one Split within epsilon of each other
TwoClose(w) ==
  /\ Len(w) >= 2
  /\ w[1].id = w[2].id
  /\ ~didResize(w[1].ratios, w[2].ratios)

\* C23 (amended): two ratio proposals for the same Split within epsilon of
\* each other, made within one debounce window, send nothing themselves;
\* when the timer fires exactly one restructure is built and sent, and it
\* pushes exactly one entry if its round trip succeeds.  The previous ratio
\* that entry captures for undo is the Split's ratio in the present tree
\* when the timer fires, which is the ratio before the first proposal
\* unless the tree changed in between.
C23_WindowMakesOneEntry ==
  [][/\ drag'.made # drag.made => calls' = calls /\ cmds' = cmds /\ state' = state
     /\ \A o \in Orients :
          (drag'.settles # drag.settles /\ TwoClose(drag.window[o])
           /\ ~IsNull(resizer'.restructure[o])) =>
            /\ cmds' = cmds + 1
            /\ \E c \in calls' :
                 /\ calls' = calls \cup {c} /\ c \notin calls
                 /\ c.op = "exec" /\ c.req = c.entry.call.do
                 /\ Named(c.req, o) = InfoOf(resizer.debounced[o])
                 /\ Named(c.entry.call.undo, o) =
                      Info(Named(c.req, o).path,
                           getNode(state.present.layout,
                                   Named(c.req, o).path).ratios)
                 /\ drag.window[o][1].was
                      = getNode(state.present.layout, Named(c.req, o).path).ratios
                    => Named(c.entry.call.undo, o).ratios = drag.window[o][1].was
     /\ \A c \in calls :
          (Returned(c) /\ c.op = "exec" /\ c.entry.type = "RESTRUCTURE"
           /\ ~IsNull(c.res)) =>
            /\ Len(state'.past) = Len(state.past) + 1
            /\ state'.past[Len(state'.past)].call = c.entry.call]_vars

\* the restructure of a window of two close proposals has been recorded
C23_Witness ==
  /\ TwoClose(drag.last["row"])
  /\ lastDone = [op |-> "exec", type |-> "RESTRUCTURE", outcome |-> "ok"]
  /\ Len(state.past) = 1
  /\ state.past[1].call.do.row.ratios = drag.last["row"][2].ratios
  /\ state.past[1].call.undo.row.ratios = drag.last["row"][1].was

\* C23 (as stated): two ratio proposals for the same Split within epsilon of
\* each other and within one debounce window produce exactly one restructure
\* entry, whose previous ratio equals the Split's ratio before the first of
\* the two proposals.
C23_PreviousIsBeforeFirst ==
  [][\A o \in Orients :
       (drag'.settles # drag.settles /\ TwoClose(drag.window[o])
        /\ ~IsNull(resizer'.restructure[o])) =>
         \E c \in calls' :
           /\ calls' = calls \cup {c} /\ c \notin calls
           /\ Named(c.entry.call.undo, o).ratios = drag.window[o][1].was]_vars


\* C24: each debounce settle, of one bucket or of both together, issues
\* exactly one restructure request and pushes exactly one entry, also when a
\* bucket settles or the component renders while the restructure of the
\* other bucket is in flight: no settled ratio change is carried by more
\* than one request, and the commands built are as many as the settles.
C24_OneRequestPerSettle ==
  /\ \A o \in Orients : drag.sent[o] <= 1
  /\ cmds <= drag.settles


\* both components of the pairs differ by at most epsilon
WithinEpsilon(a, b) ==
  \A idx \in 1..2 : Abs(a[idx] - b[idx]) <= RESIZE_EPSILON

\* C25: a proposed ratio pair whose two components each differ by at most
\* epsilon from the ratios the target Split has in the present tree starts
\* no debounce timer, causes no request and creates no entry; so no timer
\* ever holds a value that was within epsilon of its Split when proposed.
C25_JitterFiltered ==
  [][/\ (drag'.made # drag.made
         /\ WithinEpsilon(getNode(state.present.layout, IdPath(lastDone'.id)).ratios,
                          lastDone'.ratios)) =>
          /\ resizer' = resizer
          /\ calls' = calls /\ cmds' = cmds
          /\ state' = state /\ srv' = srv
     /\ \A o \in Orients :
          \A i \in 1..Len(drag'.window[o]) :
            drag'.window[o][i].kept =>
              ~WithinEpsilon(drag'.window[o][i].was, drag'.window[o][i].ratios)]_vars

\* a proposal 0.01 off the ratio of its Split was made and went nowhere
C25_Witness ==
  /\ lastDone.op = "propose" /\ lastDone.outcome = "filtered"
  /\ lastDone.ratios # getNode(state.present.layout, IdPath(lastDone.id)).ratios
  /\ WithinEpsilon(getNode(state.present.layout, IdPath(lastDone.id)).ratios,
                   lastDone.ratios)
  /\ resizer = [restructure |-> NoResize, debounced |-> NoResize]
  /\ calls = {} /\ state.past = <<>> /\ state.future = <<>>


\* the other orientation
Other(o) == IF o = "row" THEN "column" ELSE "row"

\* C26: the Row and Column buckets are independent: a proposal for a Split
\* of one orientation leaves the pending value and the state of the other
\* bucket as they were; and a bucket that settles takes the last proposal
\* made for its own orientation.
C26_BucketsIndependent ==
  [][/\ drag'.made # drag.made =>
          /\ resizer'.debounced[Other(lastDone'.orient)]
               = resizer.debounced[Other(lastDone'.orient)]
          /\ resizer'.restructure[Other(lastDone'.orient)]
               = resizer.restructure[Other(lastDone'.orient)]
     /\ \A o \in Orients :
          (drag'.settles # drag.settles /\ drag'.last[o] # <<>>) =>
            LET made == drag.window[o][Len(drag.window[o])]
            IN  resizer'.restructure[o] = ResizeOf(made.id, made.ratios)]_vars


\* C27: after a debounce settle has triggered a restructure, both buckets
\* are eventually empty again once the round trip completes, whether it
\* succeeded or failed.
C27_BucketsEventuallyReset ==
  (\E o \in Orients : ~IsNull(resizer.restructure[o]))
    ~> (\A o \in Orients : IsNull(resizer.restructure[o]))

\* the restructure of both buckets failed and both buckets are empty
C27_Witness ==
  /\ lastDone = [op |-> "exec", type |-> "RESTRUCTURE", outcome |-> "failed"]
  /\ \A o \in Orients : drag.last[o] # <<>>
  /\ resizer.restructure = NoResize
  /\ calls = {}
  /\ state.past = <<>>


\* the edits of the scenario: split([], Row), replace([1], draw_scatter),
\* delete([0]), made of the single leaf draw_empty
Scenario ==
  /\ Len(GridLog) = 3
  /\ GridLog[1].before = Leaf("draw_empty")
  /\ GridLog[1].type = "SPLIT"
  /\ GridLog[1].args = [path |-> <<>>, orient |-> "row"]
  /\ GridLog[2].type = "LEAF"
  /\ GridLog[2].args = [path |-> <<1>>, value |-> "draw_scatter"]
  /\ GridLog[3].type = "DELETE"
  /\ GridLog[3].args = [path |-> <<0>>]

\* C28: split(p, o) replaces the node at p with Split(o, node, node,
\* (50,50)); replacing the value of the second child and deleting the first
\* collapses that Split to the replaced Leaf: from Leaf(draw_empty),
\* split([], Row), replace([1], draw_scatter), delete([0]) yield
\* Leaf(draw_scatter).
C28_SplitReplaceDelete ==
  /\ (lastDone.op = "grid" /\ lastDone.type = "SPLIT" /\ lastDone.outcome = "ok") =>
       LET p == lastDone.args.path
           node == getAt(chain.before.layout, p)
       IN  state.present.layout =
             PutAt(chain.before.layout, p,
                   [orient |-> lastDone.args.orient, children |-> <<node, node>>,
                    ratios |-> <<5000, 5000>>])
  /\ Scenario =>
       /\ GridLog[2].before =
            [orient |-> "row",
             children |-> <<Leaf("draw_empty"), Leaf("draw_empty")>>,
             ratios |-> <<5000, 5000>>]
       /\ GridLog[3].before =
            [orient |-> "row",
             children |-> <<Leaf("draw_empty"), Leaf("draw_scatter")>>,
             ratios |-> <<5000, 5000>>]
       /\ state.present.layout = Leaf("draw_scatter")

\* the three edits of the scenario have been made
C28_Witness ==
  /\ Scenario
  /\ lastDone = [op |-> "grid", type |-> "DELETE", outcome |-> "ok",
                 args |-> [path |-> <<0>>]]
  /\ Len(state.past) = 3


\* a tree is a Leaf holding a function name, or a Split of exactly two
\* well-formed children with an orientation and a pair of ratios
RECURSIVE WellFormed(_)
WellFormed(t) ==
  IF IsObject(t)
  THEN /\ DOMAIN t = {"orient", "children", "ratios"}
       /\ t.orient \in Orients
       /\ Len(t.ratios) = 2
       /\ Len(t.children) = 2
       /\ WellFormed(t.children[1]) /\ WellFormed(t.children[2])
  ELSE DOMAIN t = {"value"} /\ t.value \in Funcs

\* C29: after any sequence of edits (split, delete, swap, replace,
\* restructure by the grid handlers; insert and rotate by the service) of a
\* well-formed tree, the tree is well-formed: every Split has exactly two
\* children, and the tree is never empty, its root being at least a Leaf.
C29_TreeStaysWellFormed ==
  /\ WellFormed(state.present.layout)
  /\ \A i \in 1..Len(state.past) : WellFormed(state.past[i].layout)
  /\ LET l == state.present.layout
     IN  \A p \in NodePaths(l) :
           /\ IsObject(getAt(l, p)) => WellFormed(SrvRotate(l, p))
           /\ p # <<>> =>
                \A o \in Orients, r \in RatioChoices, v \in Funcs :
                  WellFormed(SrvInsert(l, p, o, r, v))

\* three edits were made, and the last, a delete, left a single Leaf
C29_Witness ==
  /\ lastDone.op = "grid" /\ lastDone.type = "DELETE" /\ lastDone.outcome = "ok"
  /\ Len(GridLog) = 3
  /\ ~IsObject(state.present.layout)
  /\ IsObject(chain.before.layout)


\* the Splits of before at the paths of DOMAIN image are Splits of after at
\* the paths image gives them, with the ratios they had
RatiosKept(before, after, image) ==
  \A q \in DOMAIN image :
    /\ CanGetNode(after, image[q])
    /\ getAt(after, image[q]).ratios = getAt(before, q).ratios

\* where delete(p) leaves a Split of the sibling subtree: one level up
Lifted(p, q) ==
  IF IsPrefix(SiblingPath(p), q)
  THEN Front(p) \o SubSeq(q, Len(p) + 1, Len(q))
  ELSE q

\* C30: split, delete, swap, replace and rotate change the ratio of no
\* Split that exists before and after them; a ratio changes only through a
\* restructure, and then only on the Splits the restructure names.
C30_RatiosOnlyByRestructure ==
  /\ (lastDone.op = "grid" /\ lastDone.outcome = "ok") =>
       LET before == chain.before.layout
           after == state.present.layout
       IN  /\ lastDone.type \in {"SPLIT", "LEAF", "SWAP"} =>
                RatiosKept(before, after, [q \in SplitPaths(before) |-> q])
           /\ lastDone.type = "DELETE" =>
                RatiosKept(before, after,
                           [q \in {r \in SplitPaths(before) :
                                     ~IsPrefix(Front(lastDone.args.path), r)}
                              |-> q])
           /\ lastDone.type = "RESIZE" =>
                /\ SplitPaths(after) = SplitPaths(before)
                /\ \A q \in SplitPaths(before) :
                     getAt(after, q).ratios =
                       IF /\ ~IsNull(lastDone.args.column)
                          /\ IdPath(lastDone.args.column.id) = q
                       THEN lastDone.args.column.ratios
                       ELSE IF /\ ~IsNull(lastDone.args.row)
                               /\ IdPath(lastDone.args.row.id) = q
                            THEN lastDone.args.row.ratios
                            ELSE getAt(before, q).ratios
  /\ LET l == state.present.layout
     IN  /\ \A p \in SplitPaths(l) :
               RatiosKept(l, SrvRotate(l, p), [q \in SplitPaths(l) |-> q])
         /\ \A p \in LeafPaths(l) \ {<<>>} :
               RatiosKept(l, SrvDelete(l, p),
                          [q \in SplitPaths(l) \ {Front(p)} |-> Lifted(p, q)])

\* a leaf was deleted below a Split that had been resized
C30_Witness ==
  /\ lastDone.op = "grid" /\ lastDone.type = "DELETE" /\ lastDone.outcome = "ok"
  /\ IsObject(state.present.layout)
  /\ state.present.layout.ratios \in RatioChoices
  /\ chain.before.layout.ratios = state.present.layout.ratios


\* the precondition an operation's paths have against a tree
PathPrecondition(layout, req) ==
  CASE req.ep = "split"   -> CanGetAt(layout, req.path)
    [] req.ep = "delete"  -> req.path # <<>> /\ CanGetLeaf(layout, req.path)
    [] req.ep = "insert"  -> req.path # <<>> /\ CanGetAt(layout, Front(req.path))
    [] req.ep = "replace" -> CanGetLeaf(layout, req.path)
    [] req.ep = "rotate"  -> CanGetNode(layout, req.path)
    [] req.ep = "restructure" ->
         /\ IsNull(req.row) \/ CanGetNode(layout, req.row.path)
         /\ IsNull(req.column) \/ CanGetNode(layout, req.column.path)
    [] req.ep \in {"swap", "merge"} ->
         CanGetLeaf(layout, req.pathA) /\ CanGetLeaf(layout, req.pathB)
    [] OTHER -> TRUE

\* C31: an edit whose paths violate its precondition against the present
\* tree raises InvalidPath locally: no request of an execute is in flight
\* whose paths violate the precondition against the present it was built at.
C31_InvalidPathNeverSent ==
  \A c \in calls : c.op = "exec" => PathPrecondition(c.at.layout, c.req)

\* only the builders that read the tree keep an invalid path from the service
C31_ReadingBuildersThrow ==
  \A c \in calls :
    c.op = "exec" /\ c.req.ep \in {"delete", "replace", "restructure"} =>
      PathPrecondition(c.at.layout, c.req)


\* the node the loop of a walk holds after i steps of path p from t, and
\* undefined once a step was made from a leaf
RECURSIVE NodeAfter(_, _, _)
NodeAfter(t, p, i) ==
  IF i = 0 THEN t
  ELSE LET n == NodeAfter(t, p, i - 1)
       IN  IF ~IsUndefined(n) /\ IsObject(n) THEN n.children[p[i] + 1]
           ELSE Undefined

IsLeafNode(n) == ~IsUndefined(n) /\ ~IsObject(n)

\* a step before the end of p lands on a leaf of t
ThroughLeaf(t, p) ==
  \E i \in 0..(Len(p) - 1) : IsLeafNode(NodeAfter(t, p, i))

\* C32: setNode(tree, path, value) with a valid non-empty path yields a tree
\* in which getAt(path) is value and every subtree off the ancestor chain of
\* path is unchanged, and the tree the caller passed is not modified.
C32_SetNodeCopiesOnWrite ==
  lastDone.op = "setNode" /\ lastDone.outcome = "ok" =>
    LET passed == chain.before.layout
        tree == state.present.layout
        p == lastDone.path
    IN  /\ NodeAfter(tree, p, Len(p)) = lastDone.val
        /\ \A q \in NodePaths(passed) :
             ~IsPrefix(q, p) /\ ~IsPrefix(p, q) =>
               NodeAfter(tree, q, Len(q)) = NodeAfter(passed, q, Len(q))
        /\ tree = passed

\* the part of it that is about the tree after the call
C32_SetNodeSetsChild ==
  lastDone.op = "setNode" /\ lastDone.outcome = "ok" =>
    LET passed == chain.before.layout
        tree == state.present.layout
        p == lastDone.path
    IN  /\ NodeAfter(tree, p, Len(p)) = lastDone.val
        /\ \A q \in NodePaths(passed) :
             ~IsPrefix(q, p) /\ ~IsPrefix(p, q) =>
               NodeAfter(tree, q, Len(q)) = NodeAfter(passed, q, Len(q))

\* C33: getAt(tree, path) returns the node reached by following path from
\* the root and throws exactly when a step before the end of path lands on
\* a leaf; getNode throws also when the node at path is a leaf, and getLeaf
\* also when it is a Split.
C33_AccessorsFollowPath ==
  lastDone.op = "get" =>
    LET t == state.present.layout
        p == lastDone.path
        end == NodeAfter(t, p, Len(p))
        fails == CASE lastDone.type = "getAt" -> ThroughLeaf(t, p)
                   [] lastDone.type = "getNode" ->
                        ThroughLeaf(t, p) \/ IsLeafNode(end)
                   [] lastDone.type = "getLeaf" ->
                        ThroughLeaf(t, p) \/ ~IsLeafNode(end)
    IN  /\ lastDone.outcome = "threw" <=> fails
        /\ lastDone.outcome = "ok" => lastDone.target = end

\* getAt threw on a path of two steps whose first step lands on a leaf
C33_Witness ==
  /\ lastDone.op = "get" /\ lastDone.type = "getAt"
  /\ lastDone.outcome = "threw"
  /\ Len(lastDone.path) = 2
  /\ IsLeafNode(NodeAfter(state.present.layout, lastDone.path, 1))


\* C34: no edit, undo, redo or reset changes the session token: once
\* performInit has finished the token stays what it is, whatever token the
\* responses carry.
C34_TokenFixedAfterInit ==
  [][session.init = "done" => session'.token = session.token]_vars

\* after an initialization that made a new session, an undo has returned
\* with a response (and its token) and with an edit left to undo
C34_Witness ==
  /\ session.init = "done" /\ session.token = Token("created")
  /\ lastDone.op = "undo" /\ lastDone.outcome = "ok"
  /\ Len(state.past) >= 1


\* C35: a service call that fails, by a response that is not OK or by a
\* transport exception, returns null to its caller, never an exception, after
\* exactly one error notification and exactly one request; a call that was
\* notified as failed returns null.
C35_FailedCallOneNotice ==
  [][\A c \in calls :
       Returned(c) =>
         /\ IsNull(c.res) =>
              /\ c.toasts = 1
              /\ c.sent = 1
              /\ lastDone'.op = c.op /\ lastDone'.outcome = "failed"
         /\ c.toasts > 0 => IsNull(c.res)]_vars

\* a call has returned null because its response was lost, after the service
\* had applied the request
C35_Witness ==
  /\ lastDone.outcome = "failed"
  /\ lost = 1
  /\ calls = {}
  /\ srv # state.present


\* in this step the do() of merge command id returned a response
MergeDone(id) ==
  \E c \in calls :
    /\ Returned(c) /\ c.req.ep = "merge" /\ ~IsNull(c.res)
    /\ c.entry.call.id = id

\* C36: the undo of a merge sends unmerge with the inverse descriptor that
\* the most recent successful do() of the same command returned (after a
\* redo, the one the redo returned); while do() of a command has not
\* succeeded, its undo() sends no request.
C36_UnmergeSendsInverseOfLastDo ==
  [][/\ \A c \in calls :
          Returned(c) /\ c.req.ep = "merge" /\ ~IsNull(c.res) =>
            undoData'[c.entry.call.id] = c.res.inverse
     /\ \A id \in DOMAIN undoData :
          ~MergeDone(id) => undoData'[id] = undoData[id]
     /\ \A c \in calls' :
          (\A d \in calls : d.n # c.n) /\ c.op = "undo"
            /\ c.entry.call.api = "merge" =>
              /\ ~IsNull(undoData[c.entry.call.id])
              /\ c.req = [ep |-> "unmerge",
                          inverse |-> undoData[c.entry.call.id]]
     /\ \A c \in calls :
          c.op = "exec" /\ c.entry.call.api = "merge" =>
            /\ IsNull(undoData[c.entry.call.id])
            /\ UndoRequest(c.entry.call, undoData) = NoRequest]_vars

\* the undo of a merge that was redone is in flight
C36_Witness ==
  \E c \in calls :
    /\ c.op = "undo" /\ c.req.ep = "unmerge"
    /\ chain.stage = "redone" /\ chain.id = c.entry.call.id


\* C37: undo and redo only move entries between past and future: when an
\* undo or a redo returns, with a response or without, past followed by
\* future is the sequence of entries it was.
C37_UndoRedoOnlyMoveEntries ==
  [][\A c \in calls :
       Returned(c) /\ c.op \in {"undo", "redo"} =>
         state'.past \o state'.future = state.past \o state.future]_vars

\* C38: the entry a successful undo moves from past to future is the entry
\* whose undo() it invoked, and the entry a successful redo moves from
\* future to past is the entry whose do() it invoked, also when calls
\* overlap.
C38_MovedEntryWasInvoked ==
  [][\A c \in calls :
       Returned(c) /\ ~IsNull(c.res) =>
         /\ c.op = "undo" =>
              /\ state.past # <<>>
              /\ LastOf(state.past) = c.entry
              /\ FirstOf(state'.future) = c.entry
         /\ c.op = "redo" =>
              /\ state.future # <<>>
              /\ FirstOf(state.future) = c.entry
              /\ LastOf(state'.past) = c.entry]_vars

\* C39: past and future hold history entries only, never undefined, in
\* every reachable state, also when a second undo or redo is called while
\* the round trip of the first is in flight.
C39_EntriesWellFormed ==
  /\ \A i \in 1..Len(state.past) :
       ~IsUndefined(state.past[i]) /\ DOMAIN state.past[i] = {"type", "call"}
  /\ \A i \in 1..Len(state.future) :
       ~IsUndefined(state.future[i]) /\ DOMAIN state.future[i] = {"type", "call"}


\* C40: with a service that accepts every request, undo() on a non-empty
\* past eventually shortens it by one, whatever kind of entry is last: once
\* the user only undoes, a past of n entries leads to a past of fewer.
C40_UndoEventuallyShortens ==
  \A n \in 1..MaxUnwindCmds :
    (Len(state.past) = n /\ cmds = MaxUnwindCmds) ~> (Len(state.past) < n)

====
